---- MODULE Spec2Model ----
(***************************************************************************)
(* Model of src/src/utils/ambientPlayer.js: the generative ambient-audio   *)
(* scheduling engine (pad, bassline, melody, texture, heartbeat, arpeggio  *)
(* layers, the two registries, playback control, parameter setters and the *)
(* settings codec).                                                        *)
(*                                                                         *)
(* Conventions.  Volumes and gains are integers in thousandths (0.7 is     *)
(* 700, the 0.001 threshold of toggleMute is 1).  Frequencies are integers *)
(* in hundredths of a hertz.  Time is abstracted: a pending timer may fire *)
(* at any moment, callbacks run one at a time (the JavaScript event loop). *)
(* Every handler is a function from the engine state (a record S of the    *)
(* module-scoped variables of the source and of the browser's timer table) *)
(* to the next engine state; an action applies one handler to the current  *)
(* state.                                                                  *)
(***************************************************************************)
EXTENDS Integers, Sequences, FiniteSets, Bags, TLC

VARIABLES
    audioContext,          \* "null", or the AudioContext's state: "suspended" | "running"
    gainValue,             \* masterGain.gain.value as currently rendered
    gainTarget,            \* the value the scheduled automation of masterGain.gain ends at
    activeOscillators,     \* registry of live units: a bag of records [type, freq]
    activeTimers,          \* registry of timer ids: a bag of records [type, ref]
    isMuted,
    currentVolume,
    isPlaying,
    heartbeatEnabled,
    arpeggiatorEnabled,
    currentPadChordNotes,
    padOscType,
    padFilterFreq,
    chordSpeedMs,
    timers,                \* the browser's table of pending setTimeout callbacks: a bag
    awaiting,              \* startAmbient calls suspended at `await audioContext.resume()`
    lsVolume,              \* localStorage 'ambientVolume' (a string, or absent)
    lsMuted,               \* localStorage 'ambientMuted' === 'true'
    lastOp,                \* history: the exported function the last step called, or
                           \* "timer" when it ran a timer's callback
    log                    \* history: what the last step synthesized / did to the arpeggio

vars == <<audioContext, gainValue, gainTarget, activeOscillators, activeTimers, isMuted,
          currentVolume, isPlaying, heartbeatEnabled, arpeggiatorEnabled,
          currentPadChordNotes, padOscType, padFilterFreq, chordSpeedMs, timers,
          awaiting, lsVolume, lsMuted, lastOp, log>>

\* The module-scoped state of the source (everything but the two history variables).
progVars == <<audioContext, gainValue, gainTarget, activeOscillators, activeTimers, isMuted,
              currentVolume, isPlaying, heartbeatEnabled, arpeggiatorEnabled,
              currentPadChordNotes, padOscType, padFilterFreq, chordSpeedMs, timers,
              awaiting, lsVolume, lsMuted>>

-----------------------------------------------------------------------------
\* Bounds of the model.

\* Cap on the number of entries of activeTimers (the registry only grows while playing).
MaxTimers == 12
\* Cap on the number of entries of activeTimers whose timer has already fired.
MaxFired == 3
\* Cap on the number of entries of activeOscillators.
MaxUnits == 10
\* Cap on the number of startAmbient calls suspended at the await at the same time.
MaxPendingStarts == 2

-----------------------------------------------------------------------------
\* Note and chord data.

notes == <<19600, 23308, 26163, 29366, 31113, 34923, 39200, 41530, 46616, 52325,
           58733, 62225, 69846>>

\* notes[k] of the source is notes[k + 1] here (sequences start at 1).
chords == << <<notes[1], notes[3], notes[7]>>, <<notes[3], notes[6], notes[10]>>,
             <<notes[5], notes[8], notes[12]>>, <<notes[4], notes[9], notes[11]>> >>

phrases == << <<notes[7], notes[9], notes[10], notes[7]>>,
              <<notes[10], notes[7], notes[6], notes[3]>>,
              <<notes[6], notes[7], notes[9], notes[10], notes[9]>>,
              <<notes[9], notes[7], notes[5], notes[4]>> >>

validOscTypes == {"sine", "square", "sawtooth", "triangle"}

\* The heartbeat's baseFreq (60 Hz).
baseFreq == 6000

-----------------------------------------------------------------------------
\* JavaScript numbers: the integers of the model plus NaN.

NaN == -999999

MathMin(a, b) == IF a = NaN \/ b = NaN THEN NaN ELSE IF a < b THEN a ELSE b

MathMax(a, b) == IF a = NaN \/ b = NaN THEN NaN ELSE IF a > b THEN a ELSE b

\* currentVolume.toString(): the stored string, kept as the tagged number it spells.
NumberToString(x) == <<"str", x>>

\* parseFloat of a string written by NumberToString ("NaN" parses to NaN).
parseFloat(s) == s[2]

\* localStorage.getItem of a missing key.
Absent == <<"null">>

-----------------------------------------------------------------------------
\* Bags (multisets), on top of the standard module.

Copies(B, x) == CopiesIn(x, B)

BagAdd(B, x) == B (+) SetToBag({x})

BagRemove(B, x) == B (-) SetToBag({x})

BagFilter(B, Keep(_)) == [y \in {z \in DOMAIN B : Keep(z)} |-> B[y]]

BagSize(B) == BagCardinality(B)

\* The bag of F(x) for x in B.
BagImage(B, F(_)) == BagOfAll(F, B)

-----------------------------------------------------------------------------
\* The engine state as one record.
\*
\* Timer ids and oscillator objects are opaque to the source: it only stores
\* them, compares them for identity and hands them back to clearTimeout.  The
\* model therefore names a timer by what it denotes.  A pending callback is the
\* closure [kind, idx, arpNotes, unit].  An entry of activeTimers is
\* [type, ref]: type "number" for a bare id and "arpeggio_note" for a tagged
\* object, ref the pending callback the id denotes, or Fired once that timer
\* has run (the id then denotes nothing; clearTimeout on it does nothing).  An
\* entry of activeOscillators is [type, freq].  The unit of a cleanup callback
\* is the registry entry its `osc` is in, or Gone once that entry has been
\* removed (the filter of the callback then removes nothing).

NoUnit == [type |-> "none", freq |-> 0]

Gone == [type |-> "gone", freq |-> 0]

Fired == [kind |-> "fired", idx |-> 0, arpNotes |-> <<>>, unit |-> NoUnit]

Cur == [audioContext |-> audioContext, gainValue |-> gainValue, gainTarget |-> gainTarget,
        activeOscillators |-> activeOscillators, activeTimers |-> activeTimers,
        isMuted |-> isMuted, currentVolume |-> currentVolume, isPlaying |-> isPlaying,
        heartbeatEnabled |-> heartbeatEnabled, arpeggiatorEnabled |-> arpeggiatorEnabled,
        currentPadChordNotes |-> currentPadChordNotes, padOscType |-> padOscType,
        padFilterFreq |-> padFilterFreq, chordSpeedMs |-> chordSpeedMs, timers |-> timers,
        awaiting |-> awaiting, lsVolume |-> lsVolume, lsMuted |-> lsMuted, log |-> <<>>]

\* The entries of activeTimers whose timer has fired.
FiredEntries(S) == BagFilter(S.activeTimers, LAMBDA e : e.ref = Fired)

\* A step that ran handler op and left the engine in state S.
Becomes(op, S) ==
    /\ BagSize(S.activeTimers) <= MaxTimers
    /\ BagSize(FiredEntries(S)) <= MaxFired
    /\ BagSize(S.activeOscillators) <= MaxUnits
    /\ S.awaiting <= MaxPendingStarts
    /\ audioContext' = S.audioContext
    /\ gainValue' = S.gainValue
    /\ gainTarget' = S.gainTarget
    /\ activeOscillators' = S.activeOscillators
    /\ activeTimers' = S.activeTimers
    /\ isMuted' = S.isMuted
    /\ currentVolume' = S.currentVolume
    /\ isPlaying' = S.isPlaying
    /\ heartbeatEnabled' = S.heartbeatEnabled
    /\ arpeggiatorEnabled' = S.arpeggiatorEnabled
    /\ currentPadChordNotes' = S.currentPadChordNotes
    /\ padOscType' = S.padOscType
    /\ padFilterFreq' = S.padFilterFreq
    /\ chordSpeedMs' = S.chordSpeedMs
    /\ timers' = S.timers
    /\ awaiting' = S.awaiting
    /\ lsVolume' = S.lsVolume
    /\ lsMuted' = S.lsMuted
    /\ lastOp' = op
    /\ log' = S.log

\* The module's initial values, with nothing persisted yet.
ModuleLoaded ==
    /\ audioContext = "null"
    /\ gainValue = 0
    /\ gainTarget = 0
    /\ activeOscillators = EmptyBag
    /\ activeTimers = EmptyBag
    /\ isMuted = FALSE
    /\ currentVolume = 700
    /\ isPlaying = FALSE
    /\ heartbeatEnabled = FALSE
    /\ arpeggiatorEnabled = FALSE
    /\ currentPadChordNotes = <<>>
    /\ padOscType = "triangle"
    /\ padFilterFreq = 2000
    /\ chordSpeedMs = 12000
    /\ timers = EmptyBag
    /\ awaiting = 0
    /\ lastOp = "init"
    /\ log = <<>>

\* The module is loaded in a browser whose localStorage holds no preference.
Init ==
    /\ ModuleLoaded
    /\ lsVolume = Absent
    /\ lsMuted = FALSE

-----------------------------------------------------------------------------
\* Browser primitives.

\* const id = setTimeout(callback, delay); activeTimers.push(id) -- or, with
\* type "arpeggio_note", activeTimers.push({ id, type }).  The callback is the
\* closure kind(idx, arpNotes, unit).
setTimeout(S, kind, idx, arpNotes, unit, type) ==
    LET cb == [kind |-> kind, idx |-> idx, arpNotes |-> arpNotes, unit |-> unit]
    IN  [S EXCEPT !.timers = BagAdd(@, cb),
                  !.activeTimers = BagAdd(@, [type |-> type, ref |-> cb])]

RECURSIVE clearTimeout(_, _)
\* clearTimeout(id) for every entry of the bag `entries`: a pending timer is
\* taken off the table, an id whose timer has fired is ignored.
clearTimeout(S, entries) ==
    IF DOMAIN entries = {} THEN S
    ELSE LET e == CHOOSE x \in DOMAIN entries : TRUE
             S1 == IF e.ref # Fired /\ Copies(S.timers, e.ref) > 0
                   THEN [S EXCEPT !.timers = BagRemove(@, e.ref)]
                   ELSE S
         IN  clearTimeout(S1, BagRemove(entries, e))

\* The units of these layer types leave activeOscillators: the `osc` of their
\* pending cleanup callbacks is in the registry no more.
Unregister(S, types) ==
    LET gone(cb) == IF cb.kind = "cleanup" /\ cb.unit # Gone /\ cb.unit.type \in types
                    THEN [cb EXCEPT !.unit = Gone] ELSE cb
        entry(e) == [e EXCEPT !.ref = gone(@)]
    IN  [S EXCEPT !.activeOscillators = BagFilter(@, LAMBDA u : u.type \notin types),
                  !.timers = BagImage(@, gone),
                  !.activeTimers = BagImage(@, entry)]

LayerTypes == {"pad", "bass", "melody", "texture", "heartbeat", "arpeggio"}

\* What one step records of what it did, with the engine state it did it in:
\*   "synth"    a unit of `layer` is created and started at `freq`; `seq` is the
\*              note sequence of the arpeggio it belongs to
\*   "chord"    a pad transition emits the chord `chord`; `seq` is the previous one
\*   "arpStart" createArpeggio starts the sequence `seq`
\*   "arpStop"  stopArpeggioSequence ran and canceled `n` pending timers
\*   "stop"     stopAmbient ran past its guard and canceled `n` pending timers
\*   "start"    startAmbient reached `isPlaying = true`, which was `playing` before
\*   "call"     the exported function `layer` was called with the argument seq[1]
Event(S, ev, layer, freq, seq, n) ==
    [ev |-> ev, layer |-> layer, freq |-> freq, seq |-> seq, n |-> n,
     playing |-> S.isPlaying, heartbeat |-> S.heartbeatEnabled,
     arpeggiator |-> S.arpeggiatorEnabled, chord |-> S.currentPadChordNotes,
     padOscType |-> S.padOscType, padFilterFreq |-> S.padFilterFreq]

Note(S, ev, layer, freq, seq, n) ==
    [S EXCEPT !.log = Append(@, Event(S, ev, layer, freq, seq, n))]

\* The exported function op is entered with the argument arg.
Called(S, op, arg) == Note(S, "call", op, 0, <<arg>>, 0)

\* A unit (oscillator or buffer source with its gain node) is created and started.
Synthesize(S, layer, freq, seq) == Note(S, "synth", layer, freq, seq, 0)

\* activeOscillators.push({ osc, gain, type })
Register(S, type, freq) ==
    [S EXCEPT !.activeOscillators = BagAdd(@, [type |-> type, freq |-> freq])]

-----------------------------------------------------------------------------
\* Initialization.

\* What the platform answers when the AudioContext is constructed: the constructor
\* throws ("fail"), or the new context is in the state given.
InitOutcomes == {"fail", "suspended", "running"}

\* initAudio() loading the persisted preferences on every call.
initAudio_AlwaysLoads(S, outcome) ==
    LET muted == S.lsMuted
        volume == IF S.lsVolume # Absent THEN parseFloat(S.lsVolume) ELSE 700
    IN  IF S.audioContext = "null" /\ outcome = "fail" THEN S
        ELSE [S EXCEPT !.audioContext = IF @ = "null" THEN outcome ELSE @,
                       !.isMuted = muted,
                       !.currentVolume = volume,
                       !.gainValue = IF muted THEN 0 ELSE volume,
                       !.gainTarget = IF muted THEN 0 ELSE volume]

\* initAudio(): returns the nodes, or null when S.audioContext = "null" afterwards.
initAudio(S, outcome) ==
    IF S.audioContext # "null" THEN S
    ELSE IF outcome = "fail" THEN S
    ELSE LET muted == S.lsMuted
             volume == IF S.lsVolume # Absent THEN parseFloat(S.lsVolume) ELSE 700
         IN  [S EXCEPT !.audioContext = outcome,
                       !.isMuted = muted,
                       !.currentVolume = volume,
                       !.gainValue = IF muted THEN 0 ELSE volume,
                       !.gainTarget = IF muted THEN 0 ELSE volume]

-----------------------------------------------------------------------------
\* Mute and volume.

\* toggleMute() without the check that the audio graph exists.
toggleMute_NoGraphCheck(S, outcome) ==
    LET S1 == initAudio(S, outcome)
        S2 == [S1 EXCEPT !.isMuted = ~@]
    IN  IF S2.isMuted
        THEN [S2 EXCEPT !.currentVolume = IF S2.gainValue > 1 THEN S2.gainValue ELSE @,
                        !.gainTarget = 0,
                        !.lsMuted = TRUE]
        ELSE [S2 EXCEPT !.gainValue = 0,
                        !.gainTarget = S2.currentVolume,
                        !.lsMuted = FALSE]

\* toggleMute()
toggleMute(S, outcome) ==
    LET S1 == initAudio(S, outcome)
        S2 == [S1 EXCEPT !.isMuted = ~@]
    IN  IF S1.audioContext = "null" THEN S1
        ELSE IF S2.isMuted
             THEN [S2 EXCEPT !.currentVolume = IF S2.gainValue > 1 THEN S2.gainValue ELSE @,
                             !.gainTarget = 0,
                             !.lsMuted = TRUE]
             ELSE [S2 EXCEPT !.gainValue = 0,
                             !.gainTarget = S2.currentVolume,
                             !.lsMuted = FALSE]

\* setVolume(value) setting the gain target whether muted or not.
setVolume_IgnoresMute(S, value, outcome) ==
    LET S1 == initAudio(S, outcome)
        newVolume == MathMax(0, MathMin(1000, value))
    IN  IF S1.audioContext = "null" THEN S1
        ELSE [S1 EXCEPT !.currentVolume = newVolume,
                        !.gainTarget = newVolume,
                        !.lsVolume = NumberToString(newVolume)]

\* setVolume(value)
setVolume(S, value, outcome) ==
    LET S1 == initAudio(S, outcome)
        newVolume == MathMax(0, MathMin(1000, value))
    IN  IF S1.audioContext = "null" THEN S1
        ELSE [S1 EXCEPT !.currentVolume = newVolume,
                        !.gainTarget = IF S1.isMuted THEN @ ELSE newVolume,
                        !.lsVolume = NumberToString(newVolume)]

-----------------------------------------------------------------------------
\* The arpeggio layer.

\* The callback of a unit's self-cleanup timer:
\* activeOscillators = activeOscillators.filter(item => item.osc !== osc).
cleanup(S, unit) ==
    IF unit = Gone \/ Copies(S.activeOscillators, unit) = 0 THEN S
    ELSE [S EXCEPT !.activeOscillators = BagRemove(@, unit)]

\* playArpNote, the closure of createArpeggio over arpNotes and noteIndex
\* (noteIndex is only ever used modulo arpNotes.length and is kept modulo it).
playArpNote(S, arpNotes, noteIndex) ==
    LET freq == arpNotes[(noteIndex % Len(arpNotes)) + 1]
        next == (noteIndex + 1) % Len(arpNotes)
        unit == [type |-> "arpeggio", freq |-> freq]
        S1 == Register(Synthesize(S, "arpeggio", freq, arpNotes), "arpeggio", freq)
        S2 == setTimeout(S1, "cleanup", 0, <<>>, unit, "number")
    IN  IF S2.isPlaying /\ S2.arpeggiatorEnabled
        THEN setTimeout(S2, "playArpNote", next, arpNotes, NoUnit, "arpeggio_note")
        ELSE S2

\* createArpeggio()
createArpeggio(S) ==
    IF \/ S.audioContext = "null"
       \/ ~S.isPlaying
       \/ ~S.arpeggiatorEnabled
       \/ Len(S.currentPadChordNotes) = 0
    THEN S
    ELSE LET arpNotes == S.currentPadChordNotes \o <<S.currentPadChordNotes[2] * 2>>
         IN  playArpNote(Note(S, "arpStart", "arpeggio", 0, arpNotes, 0), arpNotes, 0)

\* stopArpeggioSequence() leaving the arpeggio units in activeOscillators.
stopArpeggioSequence_KeepsUnits(S) ==
    LET tagged == BagFilter(S.activeTimers, LAMBDA e : e.type = "arpeggio_note")
        S1 == clearTimeout(S, tagged)
        S2 == [S1 EXCEPT !.activeTimers = BagFilter(@, LAMBDA e : e.type # "arpeggio_note")]
    IN  Note(S2, "arpStop", "arpeggio", 0, <<>>, BagSize(S.timers) - BagSize(S1.timers))

\* stopArpeggioSequence()
stopArpeggioSequence(S) ==
    LET tagged == BagFilter(S.activeTimers, LAMBDA e : e.type = "arpeggio_note")
        S1 == clearTimeout(S, tagged)
        S2 == [S1 EXCEPT !.activeTimers = BagFilter(@, LAMBDA e : e.type # "arpeggio_note")]
        S3 == Unregister(S2, {"arpeggio"})
    IN  Note(S3, "arpStop", "arpeggio", 0, <<>>, BagSize(S.timers) - BagSize(S1.timers))

-----------------------------------------------------------------------------
\* The pad layer.

RECURSIVE PadNotes(_, _)
\* currentPadChordNotes.forEach(freq => ...): two detuned oscillators per frequency.
PadNotes(S, freqs) ==
    IF freqs = <<>> THEN S
    ELSE LET freq == Head(freqs)
             freq2 == (freq * 1003) \div 1000
             S1 == Synthesize(Synthesize(S, "pad", freq, <<>>), "pad", freq2, <<>>)
             S2 == Register(S1, "pad", freq)
             S3 == Register(S2, "pad", freq2)
         IN  PadNotes(S3, Tail(freqs))

\* chordProgression restarting the arpeggio without stopping the running sequence.
chordProgression_NoStop(S, chordIndex) ==
    IF ~S.isPlaying \/ S.audioContext = "null" THEN S
    ELSE LET previousChordNotes == S.currentPadChordNotes
             S1 == [S EXCEPT !.currentPadChordNotes = chords[chordIndex + 1]]
             chordChanged == previousChordNotes # S1.currentPadChordNotes
             next == (chordIndex + 1) % Len(chords)
             S2 == Unregister(Note(S1, "chord", "pad", 0, previousChordNotes, 0), {"pad"})
             S3 == PadNotes(S2, S2.currentPadChordNotes)
             S4 == setTimeout(S3, "chordProgression", next, <<>>, NoUnit, "number")
         IN  IF S4.arpeggiatorEnabled /\ chordChanged
             THEN createArpeggio(S4)
             ELSE S4

\* chordProgression that does not advance chordIndex.
chordProgression_NoAdvance(S, chordIndex) ==
    IF ~S.isPlaying \/ S.audioContext = "null" THEN S
    ELSE LET previousChordNotes == S.currentPadChordNotes
             S1 == [S EXCEPT !.currentPadChordNotes = chords[chordIndex + 1]]
             chordChanged == previousChordNotes # S1.currentPadChordNotes
             S2 == Unregister(Note(S1, "chord", "pad", 0, previousChordNotes, 0), {"pad"})
             S3 == PadNotes(S2, S2.currentPadChordNotes)
             S4 == setTimeout(S3, "chordProgression", chordIndex, <<>>, NoUnit, "number")
         IN  IF S4.arpeggiatorEnabled /\ chordChanged
             THEN createArpeggio(stopArpeggioSequence(S4))
             ELSE S4

\* chordProgression whose sweep removes the units of every layer.
chordProgression_SweepsAll(S, chordIndex) ==
    IF ~S.isPlaying \/ S.audioContext = "null" THEN S
    ELSE LET previousChordNotes == S.currentPadChordNotes
             S1 == [S EXCEPT !.currentPadChordNotes = chords[chordIndex + 1]]
             chordChanged == previousChordNotes # S1.currentPadChordNotes
             next == (chordIndex + 1) % Len(chords)
             S2 == Unregister(Note(S1, "chord", "pad", 0, previousChordNotes, 0), LayerTypes)
             S3 == PadNotes(S2, S2.currentPadChordNotes)
             S4 == setTimeout(S3, "chordProgression", next, <<>>, NoUnit, "number")
         IN  IF S4.arpeggiatorEnabled /\ chordChanged
             THEN createArpeggio(stopArpeggioSequence(S4))
             ELSE S4

\* chordProgression that does not schedule the next transition.
chordProgression_NoReschedule(S, chordIndex) ==
    IF ~S.isPlaying \/ S.audioContext = "null" THEN S
    ELSE LET previousChordNotes == S.currentPadChordNotes
             S1 == [S EXCEPT !.currentPadChordNotes = chords[chordIndex + 1]]
             chordChanged == previousChordNotes # S1.currentPadChordNotes
             S2 == Unregister(Note(S1, "chord", "pad", 0, previousChordNotes, 0), {"pad"})
             S3 == PadNotes(S2, S2.currentPadChordNotes)
         IN  IF S3.arpeggiatorEnabled /\ chordChanged
             THEN createArpeggio(stopArpeggioSequence(S3))
             ELSE S3

\* chordProgression, the closure of createPad over chordIndex.
chordProgression(S, chordIndex) ==
    IF ~S.isPlaying \/ S.audioContext = "null" THEN S
    ELSE LET previousChordNotes == S.currentPadChordNotes
             S1 == [S EXCEPT !.currentPadChordNotes = chords[chordIndex + 1]]
             \* JSON.stringify is injective on arrays of numbers
             chordChanged == previousChordNotes # S1.currentPadChordNotes
             next == (chordIndex + 1) % Len(chords)
             S2 == Unregister(Note(S1, "chord", "pad", 0, previousChordNotes, 0), {"pad"})
             S3 == PadNotes(S2, S2.currentPadChordNotes)
             S4 == setTimeout(S3, "chordProgression", next, <<>>, NoUnit, "number")
         IN  IF S4.arpeggiatorEnabled /\ chordChanged
             THEN createArpeggio(stopArpeggioSequence(S4))
             ELSE S4

\* createPad(); chordIndex is Math.floor(Math.random() * chords.length).
createPad(S, chordIndex) ==
    IF S.audioContext = "null" \/ ~S.isPlaying THEN S
    ELSE chordProgression([S EXCEPT !.currentPadChordNotes = chords[chordIndex + 1]],
                          chordIndex)

-----------------------------------------------------------------------------
\* Bassline, melody and texture.

\* playBassNote, the closure of createBassline.  Its two oscillators are started
\* but not pushed to activeOscillators; the note cycle only selects their pitch
\* and is not tracked.
playBassNote(S) ==
    IF ~S.isPlaying \/ S.audioContext = "null" THEN S
    ELSE LET S1 == Synthesize(Synthesize(S, "bass", 0, <<>>), "bass", 0, <<>>)
         IN  setTimeout(S1, "playBassNote", 0, <<>>, NoUnit, "number")

\* createBassline()
createBassline(S) ==
    IF S.audioContext = "null" \/ ~S.isPlaying THEN S
    ELSE setTimeout(S, "playBassNote", 0, <<>>, NoUnit, "number")

\* The callback of a melody note's timer (noteTimeout).
playMelodyNote(S, freq) ==
    IF ~S.isPlaying \/ S.audioContext = "null" THEN S
    ELSE LET unit == [type |-> "melody", freq |-> freq]
             S1 == Register(Synthesize(S, "melody", freq, <<>>), "melody", freq)
         IN  setTimeout(S1, "cleanup", 0, <<>>, unit, "number")

RECURSIVE PhraseNotes(_, _)
\* currentPhrase.forEach((freq, i) => setTimeout(..., i * (800 + Math.random() * 200)))
PhraseNotes(S, freqs) ==
    IF freqs = <<>> THEN S
    ELSE PhraseNotes(setTimeout(S, "playMelodyNote", Head(freqs), <<>>, NoUnit, "number"),
                     Tail(freqs))

\* playPhrase, the closure of createMelody over phraseIndex.
playPhrase(S, phraseIndex) ==
    IF ~S.isPlaying \/ S.audioContext = "null" THEN S
    ELSE LET currentPhrase == phrases[phraseIndex + 1]
             next == (phraseIndex + 1) % Len(phrases)
             S1 == PhraseNotes(S, currentPhrase)
         IN  setTimeout(S1, "playPhrase", next, <<>>, NoUnit, "number")

\* createMelody() scheduling no first phrase.
createMelody_NoTimer(S, phraseIndex) == S

\* createMelody(); phraseIndex is Math.floor(Math.random() * phrases.length).
createMelody(S, phraseIndex) ==
    IF S.audioContext = "null" \/ ~S.isPlaying THEN S
    ELSE setTimeout(S, "playPhrase", phraseIndex, <<>>, NoUnit, "number")

\* createTexture() without the check for a texture already registered.
createTexture_NoDuplicateCheck(S) ==
    IF S.audioContext = "null" \/ ~S.isPlaying THEN S
    ELSE Register(Synthesize(S, "texture", 0, <<>>), "texture", 0)

\* createTexture()
createTexture(S) ==
    IF S.audioContext = "null" \/ ~S.isPlaying THEN S
    ELSE IF \E item \in DOMAIN S.activeOscillators : item.type = "texture" THEN S
    ELSE Register(Synthesize(S, "texture", 0, <<>>), "texture", 0)

-----------------------------------------------------------------------------
\* The heartbeat layer.

\* playSingleBeat that registers its unit and schedules no self-cleanup.
playSingleBeat_NoCleanup(S) ==
    IF ~S.isPlaying \/ S.audioContext = "null" THEN S
    ELSE Register(Synthesize(S, "heartbeat", baseFreq, <<>>), "heartbeat", baseFreq)

\* playSingleBeat(startTimeOffset), the closure of playBeatPair.
playSingleBeat(S) ==
    IF ~S.isPlaying \/ S.audioContext = "null" THEN S
    ELSE LET unit == [type |-> "heartbeat", freq |-> baseFreq]
             S1 == Register(Synthesize(S, "heartbeat", baseFreq, <<>>), "heartbeat", baseFreq)
         IN  setTimeout(S1, "cleanup", 0, <<>>, unit, "number")

\* playBeatPair without the heartbeatEnabled half of its guard.
playBeatPair_NoEnabledCheck(S) ==
    IF ~S.isPlaying \/ S.audioContext = "null" THEN S
    ELSE setTimeout(playSingleBeat(playSingleBeat(S)), "playBeatPair", 0, <<>>, NoUnit,
                    "number")

\* playBeatPair, the closure of createHeartbeat.
playBeatPair(S) ==
    IF ~S.isPlaying \/ S.audioContext = "null" \/ ~S.heartbeatEnabled THEN S
    ELSE setTimeout(playSingleBeat(playSingleBeat(S)), "playBeatPair", 0, <<>>, NoUnit,
                    "number")

\* createHeartbeat()
createHeartbeat(S) ==
    IF S.audioContext = "null" \/ ~S.isPlaying \/ ~S.heartbeatEnabled THEN S
    ELSE playBeatPair(S)

-----------------------------------------------------------------------------
\* Playback control.

\* startAmbient() from `isPlaying = true` on: what runs when the context was not
\* suspended, or once the awaited resume has resolved.
startLayers(S, chordIndex, phraseIndex) ==
    LET S1 == [Note(S, "start", "all", 0, <<>>, 0) EXCEPT !.isPlaying = TRUE]
        S2 == setVolume(S1, S1.currentVolume, "fail")
        S3 == createPad(S2, chordIndex)
        S4 == createBassline(S3)
        S5 == createTexture(S4)
        S6 == createMelody(S5, phraseIndex)
        S7 == IF S6.heartbeatEnabled THEN createHeartbeat(S6) ELSE S6
    IN  IF S7.arpeggiatorEnabled /\ Len(S7.currentPadChordNotes) > 0
        THEN createArpeggio(S7)
        ELSE S7

\* startAmbient() without the `isPlaying` half of its guard.
startAmbient_NoPlayingGuard(S, outcome, chordIndex, phraseIndex) ==
    LET S1 == initAudio(S, outcome)
    IN  IF S1.audioContext = "null" THEN S1
        ELSE IF S1.audioContext = "suspended"
             THEN [S1 EXCEPT !.awaiting = @ + 1]
             ELSE startLayers(S1, chordIndex, phraseIndex)

\* startAmbient() up to its first suspension point.
startAmbient(S, outcome, chordIndex, phraseIndex) ==
    LET S1 == initAudio(S, outcome)
    IN  IF S1.audioContext = "null" \/ S1.isPlaying THEN S1
        ELSE IF S1.audioContext = "suspended"
             THEN [S1 EXCEPT !.awaiting = @ + 1]
             ELSE startLayers(S1, chordIndex, phraseIndex)

\* The continuation of startAmbient() after `await audioContext.resume()` resolved.
startResumed(S, chordIndex, phraseIndex) ==
    startLayers([S EXCEPT !.awaiting = @ - 1, !.audioContext = "running"],
                chordIndex, phraseIndex)

\* The continuation after a rejected resume that starts the layers all the same.
startRejected_StartsAnyway(S) == startLayers([S EXCEPT !.awaiting = @ - 1], 0, 1)

\* The continuation of startAmbient() when the awaited resume was rejected:
\* the catch logs and returns.
startRejected(S) == [S EXCEPT !.awaiting = @ - 1]

\* stopAmbient() without `activeTimers = []`.
stopAmbient_KeepsRegistry(S) ==
    IF S.audioContext = "null" \/ ~S.isPlaying THEN S
    ELSE LET S1 == [S EXCEPT !.isPlaying = FALSE]
             S2 == clearTimeout(S1, S1.activeTimers)
         IN  Note(Unregister(S2, LayerTypes), "stop", "all", 0, <<>>,
                  BagSize(S.timers) - BagSize(S2.timers))

\* stopAmbient() clearing only the tagged entries of activeTimers.
stopAmbient_SkipsNumbers(S) ==
    IF S.audioContext = "null" \/ ~S.isPlaying THEN S
    ELSE LET S1 == [S EXCEPT !.isPlaying = FALSE]
             S2 == clearTimeout(S1, BagFilter(S1.activeTimers,
                                   LAMBDA e : e.type = "arpeggio_note"))
             S3 == [S2 EXCEPT !.activeTimers = EmptyBag]
         IN  Note(Unregister(S3, LayerTypes), "stop", "all", 0, <<>>,
                  BagSize(S.timers) - BagSize(S2.timers))

\* stopAmbient() clearing only the bare ids of activeTimers.
stopAmbient_SkipsTagged(S) ==
    IF S.audioContext = "null" \/ ~S.isPlaying THEN S
    ELSE LET S1 == [S EXCEPT !.isPlaying = FALSE]
             S2 == clearTimeout(S1, BagFilter(S1.activeTimers,
                                   LAMBDA e : e.type = "number"))
             S3 == [S2 EXCEPT !.activeTimers = EmptyBag]
         IN  Note(Unregister(S3, LayerTypes), "stop", "all", 0, <<>>,
                  BagSize(S.timers) - BagSize(S2.timers))

\* stopAmbient()
stopAmbient(S) ==
    IF S.audioContext = "null" \/ ~S.isPlaying THEN S
    ELSE LET S1 == [S EXCEPT !.isPlaying = FALSE]
             \* a tagged entry is an object with a truthy id, any other a number
             S2 == clearTimeout(S1, BagFilter(S1.activeTimers,
                                   LAMBDA e : e.type \in {"arpeggio_note", "number"}))
             S3 == [S2 EXCEPT !.activeTimers = EmptyBag]
         IN  Note(Unregister(S3, LayerTypes), "stop", "all", 0, <<>>,
                  BagSize(S.timers) - BagSize(S2.timers))

-----------------------------------------------------------------------------
\* Layer toggles.

\* toggleHeartbeat()
toggleHeartbeat(S) ==
    LET S1 == [S EXCEPT !.heartbeatEnabled = ~@]
    IN  IF ~S1.isPlaying THEN S1
        ELSE IF S1.heartbeatEnabled THEN createHeartbeat(S1)
        ELSE LET S2 == Unregister(S1, {"heartbeat"})
             IN  [S2 EXCEPT !.activeTimers = BagFilter(@, LAMBDA id : TRUE)]

\* toggleArpeggiator() that only flips the flag.
toggleArpeggiator_FlagOnly(S) == [S EXCEPT !.arpeggiatorEnabled = ~@]

\* toggleArpeggiator()
toggleArpeggiator(S) ==
    LET S1 == [S EXCEPT !.arpeggiatorEnabled = ~@]
    IN  IF ~S1.isPlaying THEN S1
        ELSE IF S1.arpeggiatorEnabled THEN createArpeggio(S1)
        ELSE stopArpeggioSequence(S1)

-----------------------------------------------------------------------------
\* Parameter setters and the settings codec.

\* setPadOscillatorType(type) that also ends the pad units in flight.
setPadOscillatorType_RestartsPad(S, type) ==
    IF type \in validOscTypes
    THEN Unregister([S EXCEPT !.padOscType = type], {"pad"})
    ELSE S

\* setPadOscillatorType(type) without the check of the type.
setPadOscillatorType_AcceptsAny(S, type) == [S EXCEPT !.padOscType = type]

\* setPadOscillatorType(type)
setPadOscillatorType(S, type) ==
    IF type \in validOscTypes THEN [S EXCEPT !.padOscType = type] ELSE S

\* setPadFilterFrequency(freq) without the upper limit.
setPadFilterFrequency_NoUpperLimit(S, freq) ==
    [S EXCEPT !.padFilterFreq = MathMax(100, freq)]

\* setPadFilterFrequency(freq)
setPadFilterFrequency(S, freq) ==
    [S EXCEPT !.padFilterFreq = MathMax(100, MathMin(10000, freq))]

\* setChordSpeed(ms)
setChordSpeed(S, ms) ==
    [S EXCEPT !.chordSpeedMs = MathMax(4000, MathMin(30000, ms))]

\* A JavaScript value with its typeof: <<"number", x>>, <<"boolean", b>>,
\* <<"string", s>> or <<"undefined">>.
typeof(v) == v[1]

Undefined == <<"undefined">>

\* getSettings()
getSettings(S) ==
    [volume |-> <<"number", S.currentVolume>>,
     isMuted |-> <<"boolean", S.isMuted>>,
     padOscType |-> <<"string", S.padOscType>>,
     padFilterFreq |-> <<"number", S.padFilterFreq>>,
     chordSpeedMs |-> <<"number", S.chordSpeedMs>>,
     heartbeatEnabled |-> <<"boolean", S.heartbeatEnabled>>,
     arpeggiatorEnabled |-> <<"boolean", S.arpeggiatorEnabled>>]

\* applySettings(settings) calling toggleMute() whenever the snapshot is muted.
applySettings_MuteNotCompared(S, settings, outcome) ==
    LET S1 == IF typeof(settings.volume) = "number"
              THEN setVolume(S, settings.volume[2], outcome) ELSE S
        S2 == IF typeof(settings.isMuted) = "boolean" /\ settings.isMuted[2]
              THEN toggleMute(S1, outcome) ELSE S1
        S3 == IF typeof(settings.padOscType) = "string"
              THEN setPadOscillatorType(S2, settings.padOscType[2]) ELSE S2
        S4 == IF typeof(settings.padFilterFreq) = "number"
              THEN setPadFilterFrequency(S3, settings.padFilterFreq[2]) ELSE S3
        S5 == IF typeof(settings.chordSpeedMs) = "number"
              THEN setChordSpeed(S4, settings.chordSpeedMs[2]) ELSE S4
        S6 == IF /\ typeof(settings.heartbeatEnabled) = "boolean"
                 /\ settings.heartbeatEnabled[2] # S5.heartbeatEnabled
              THEN toggleHeartbeat(S5) ELSE S5
    IN  IF /\ typeof(settings.arpeggiatorEnabled) = "boolean"
           /\ settings.arpeggiatorEnabled[2] # S6.arpeggiatorEnabled
        THEN toggleArpeggiator(S6) ELSE S6

\* applySettings(settings) setting the heartbeat by level: it toggles whenever
\* the snapshot has the heartbeat on.
applySettings_HeartbeatByLevel(S, settings, outcome) ==
    LET S1 == IF typeof(settings.volume) = "number"
              THEN setVolume(S, settings.volume[2], outcome) ELSE S
        S2 == IF typeof(settings.isMuted) = "boolean" /\ settings.isMuted[2] # S1.isMuted
              THEN toggleMute(S1, outcome) ELSE S1
        S3 == IF typeof(settings.padOscType) = "string"
              THEN setPadOscillatorType(S2, settings.padOscType[2]) ELSE S2
        S4 == IF typeof(settings.padFilterFreq) = "number"
              THEN setPadFilterFrequency(S3, settings.padFilterFreq[2]) ELSE S3
        S5 == IF typeof(settings.chordSpeedMs) = "number"
              THEN setChordSpeed(S4, settings.chordSpeedMs[2]) ELSE S4
        S6 == IF typeof(settings.heartbeatEnabled) = "boolean" /\ settings.heartbeatEnabled[2]
              THEN toggleHeartbeat(S5) ELSE S5
    IN  IF /\ typeof(settings.arpeggiatorEnabled) = "boolean"
           /\ settings.arpeggiatorEnabled[2] # S6.arpeggiatorEnabled
        THEN toggleArpeggiator(S6) ELSE S6

\* applySettings(settings), settings a non-null object.
applySettings(S, settings, outcome) ==
    LET S1 == IF typeof(settings.volume) = "number"
              THEN setVolume(S, settings.volume[2], outcome) ELSE S
        S2 == IF typeof(settings.isMuted) = "boolean" /\ settings.isMuted[2] # S1.isMuted
              THEN toggleMute(S1, outcome) ELSE S1
        S3 == IF typeof(settings.padOscType) = "string"
              THEN setPadOscillatorType(S2, settings.padOscType[2]) ELSE S2
        S4 == IF typeof(settings.padFilterFreq) = "number"
              THEN setPadFilterFrequency(S3, settings.padFilterFreq[2]) ELSE S3
        S5 == IF typeof(settings.chordSpeedMs) = "number"
              THEN setChordSpeed(S4, settings.chordSpeedMs[2]) ELSE S4
        S6 == IF /\ typeof(settings.heartbeatEnabled) = "boolean"
                 /\ settings.heartbeatEnabled[2] # S5.heartbeatEnabled
              THEN toggleHeartbeat(S5) ELSE S5
    IN  IF /\ typeof(settings.arpeggiatorEnabled) = "boolean"
           /\ settings.arpeggiatorEnabled[2] # S6.arpeggiatorEnabled
        THEN toggleArpeggiator(S6) ELSE S6

\* suspendAudio(), once the suspension has taken effect.
suspendAudio(S) ==
    IF S.audioContext = "running" THEN [S EXCEPT !.audioContext = "suspended"] ELSE S

-----------------------------------------------------------------------------
\* Inputs.

ChordIndices == {0, 3}

PhraseIndices == {1, 2}

VolumeInputs == {-500, 300, 1500}

OscTypeInputs == {"square", "noise"}

FilterInputs == {-5, 800, 999999}

ChordSpeedInputs == {1, 20000, 999999}

\* The levels masterGain.gain.value is observed at while a ramp is under way.
GainLevels == {1, 300}

Between(a, b, x) == (a < x /\ x < b) \/ (b < x /\ x < a)

-----------------------------------------------------------------------------
\* Actions: calls of the exported functions.

\* The outcomes to consider for a call: they differ only while there is no context.
Outcomes == IF audioContext = "null" THEN InitOutcomes ELSE {"fail"}

InitAudio == \E o \in Outcomes : Becomes("initAudio", initAudio(Cur, o))

\* The first activation (the UI activates the engine when it mounts).
Activate ==
    /\ audioContext = "null"
    /\ InitAudio

\* The random draws to consider for a call: one when the call draws none.
Draws(D, drawn) == IF drawn THEN D ELSE {0}

StartAmbient ==
    \E o \in Outcomes :
        LET starts == ~isPlaying /\ initAudio(Cur, o).audioContext = "running"
        IN  \E ci \in Draws(ChordIndices, starts), pi \in Draws(PhraseIndices, starts) :
                Becomes("startAmbient", startAmbient(Cur, o, ci, pi))

StartResumed ==
    /\ awaiting > 0
    /\ \E ci \in ChordIndices, pi \in PhraseIndices :
          Becomes("startResumed", startResumed(Cur, ci, pi))

StartRejected ==
    /\ awaiting > 0
    /\ Becomes("startRejected", startRejected(Cur))

StopAmbient == \E S \in {stopAmbient(Cur)} : Becomes("stopAmbient", S)

ToggleHeartbeat == \E S \in {toggleHeartbeat(Cur)} : Becomes("toggleHeartbeat", S)

ToggleArpeggiator == \E S \in {toggleArpeggiator(Cur)} : Becomes("toggleArpeggiator", S)

SuspendAudio ==
    /\ audioContext = "running"
    /\ Becomes("suspendAudio", suspendAudio(Cur))

\* A resume requested by initAudio or resumeAudio takes effect.
ContextResumed ==
    /\ audioContext = "suspended"
    /\ Becomes("contextResumed", [Cur EXCEPT !.audioContext = "running"])

SetVolume ==
    \E v \in VolumeInputs, o \in Outcomes :
        Becomes("setVolume", setVolume(Called(Cur, "setVolume", v), v, o))

ToggleMute == \E o \in Outcomes : Becomes("toggleMute", toggleMute(Cur, o))

SetPadOscillatorType ==
    \E type \in OscTypeInputs :
        \E S \in {setPadOscillatorType(Called(Cur, "setPadOscillatorType", type), type)} : Becomes("setPadOscillatorType", S)

SetPadFilterFrequency ==
    \E freq \in FilterInputs :
        \E S \in {setPadFilterFrequency(Called(Cur, "setPadFilterFrequency", freq), freq)} : Becomes("setPadFilterFrequency", S)

SetChordSpeed ==
    \E ms \in ChordSpeedInputs :
        \E S \in {setChordSpeed(Called(Cur, "setChordSpeed", ms), ms)} : Becomes("setChordSpeed", S)

\* applySettings(getSettings())
ApplyOwnSettings ==
    \E o \in Outcomes :
        Becomes("applySettings(getSettings())", applySettings(Cur, getSettings(Cur), o))

\* The automation of masterGain.gain advances: the rendered value moves toward
\* the scheduled target, through an intermediate level or onto the target.
GainRamp ==
    /\ gainValue # gainTarget
    /\ \E x \in GainLevels \cup {gainTarget} :
          /\ x = gainTarget \/ Between(gainValue, gainTarget, x)
          /\ Becomes("gainRamp", [Cur EXCEPT !.gainValue = x])

-----------------------------------------------------------------------------
\* Actions: a pending timer fires and its callback runs.

\* The engine states in which callback cb has just been taken off the browser's
\* table to run: the registry entry that holds its id now refers to a fired
\* timer (and, were a pending timer held by no entry, the registry is as it was).
FiredStates(cb) ==
    LET off == [Cur EXCEPT !.timers = BagRemove(@, cb)]
        holders == {e \in DOMAIN activeTimers : e.ref = cb}
        held == BagSize(BagFilter(activeTimers, LAMBDA e : e.ref = cb))
    IN  {[off EXCEPT !.activeTimers = BagAdd(BagRemove(@, e), [e EXCEPT !.ref = Fired])] :
            e \in holders}
        \cup (IF Copies(timers, cb) > held THEN {off} ELSE {})

ChordProgression ==
    \E cb \in DOMAIN timers :
        /\ cb.kind = "chordProgression"
        /\ \E S \in FiredStates(cb) :
              Becomes("timer", chordProgression(S, cb.idx))

PlayBassNote ==
    \E cb \in DOMAIN timers :
        /\ cb.kind = "playBassNote"
        /\ \E S \in FiredStates(cb) : Becomes("timer", playBassNote(S))

PlayPhrase ==
    \E cb \in DOMAIN timers :
        /\ cb.kind = "playPhrase"
        /\ \E S \in FiredStates(cb) : Becomes("timer", playPhrase(S, cb.idx))

PlayMelodyNote ==
    \E cb \in DOMAIN timers :
        /\ cb.kind = "playMelodyNote"
        /\ \E S \in FiredStates(cb) : Becomes("timer", playMelodyNote(S, cb.idx))

PlayBeatPair ==
    \E cb \in DOMAIN timers :
        /\ cb.kind = "playBeatPair"
        /\ \E S \in FiredStates(cb) : Becomes("timer", playBeatPair(S))

PlayArpNote ==
    \E cb \in DOMAIN timers :
        /\ cb.kind = "playArpNote"
        /\ \E S \in FiredStates(cb) :
              Becomes("timer", playArpNote(S, cb.arpNotes, cb.idx))

Cleanup ==
    \E cb \in DOMAIN timers :
        /\ cb.kind = "cleanup"
        /\ \E S \in FiredStates(cb) : Becomes("timer", cleanup(S, cb.unit))

-----------------------------------------------------------------------------
\* Specifications.

Control ==
    \/ Activate
    \/ StartAmbient
    \/ StartResumed
    \/ StartRejected
    \/ StopAmbient
    \/ ToggleHeartbeat
    \/ ToggleArpeggiator
    \/ ContextResumed

TimerFires ==
    \/ ChordProgression
    \/ PlayBassNote
    \/ PlayPhrase
    \/ PlayMelodyNote
    \/ PlayBeatPair
    \/ PlayArpNote
    \/ Cleanup

Next == Control \/ TimerFires

\* Playback: the control surface and the timers, in every interleaving.
Spec == Init /\ [][Next]_vars

-----------------------------------------------------------------------------
\* Timer callbacks in which the synthesis of a unit throws.  No callback wraps
\* its node creation in a try: the exception leaves the callback at the first
\* node it creates, and what the callback did before stays done.

\* A unit of `layer` could not be synthesized: the exception leaves the callback.
Throw(S, layer) == Note(S, "fault", layer, 0, <<>>, 0)

\* chordProgression throwing at the first createOscillator of its forEach: the
\* chord is stored and the previous pad units are faded and unregistered.
chordProgressionThrows(S, chordIndex) ==
    IF ~S.isPlaying \/ S.audioContext = "null" THEN S
    ELSE LET previousChordNotes == S.currentPadChordNotes
             S1 == [S EXCEPT !.currentPadChordNotes = chords[chordIndex + 1]]
             S2 == Unregister(Note(S1, "chord", "pad", 0, previousChordNotes, 0), {"pad"})
         IN  Throw(S2, "pad")

\* playBassNote throwing at its first createOscillator.
playBassNoteThrows(S) ==
    IF ~S.isPlaying \/ S.audioContext = "null" THEN S
    ELSE Throw(S, "bass")

\* The callback of a melody note's timer throwing at its createOscillator.
playMelodyNoteThrows(S, freq) ==
    IF ~S.isPlaying \/ S.audioContext = "null" THEN S
    ELSE Throw(S, "melody")

\* playBeatPair throwing at the createOscillator of its first playSingleBeat.
playBeatPairThrows(S) ==
    IF ~S.isPlaying \/ S.audioContext = "null" \/ ~S.heartbeatEnabled THEN S
    ELSE Throw(S, "heartbeat")

\* playArpNote throwing at its createOscillator.
playArpNoteThrows(S, arpNotes, noteIndex) == Throw(S, "arpeggio")

ChordProgressionThrows ==
    \E cb \in DOMAIN timers :
        /\ cb.kind = "chordProgression"
        /\ \E S \in FiredStates(cb) : Becomes("timer", chordProgressionThrows(S, cb.idx))

PlayBassNoteThrows ==
    \E cb \in DOMAIN timers :
        /\ cb.kind = "playBassNote"
        /\ \E S \in FiredStates(cb) : Becomes("timer", playBassNoteThrows(S))

PlayMelodyNoteThrows ==
    \E cb \in DOMAIN timers :
        /\ cb.kind = "playMelodyNote"
        /\ \E S \in FiredStates(cb) : Becomes("timer", playMelodyNoteThrows(S, cb.idx))

PlayBeatPairThrows ==
    \E cb \in DOMAIN timers :
        /\ cb.kind = "playBeatPair"
        /\ \E S \in FiredStates(cb) : Becomes("timer", playBeatPairThrows(S))

PlayArpNoteThrows ==
    \E cb \in DOMAIN timers :
        /\ cb.kind = "playArpNote"
        /\ \E S \in FiredStates(cb) :
              Becomes("timer", playArpNoteThrows(S, cb.arpNotes, cb.idx))

TimerThrows ==
    \/ ChordProgressionThrows
    \/ PlayBassNoteThrows
    \/ PlayMelodyNoteThrows
    \/ PlayBeatPairThrows
    \/ PlayArpNoteThrows

NextFaults ==
    \/ awaiting = 0 /\ StartAmbient
    \/ StartResumed
    \/ StopAmbient
    \/ ToggleHeartbeat
    \/ ToggleArpeggiator
    \/ TimerFires
    \/ TimerThrows

\* Playback (one startAmbient() call at a time) in a browser whose Web Audio
\* calls may throw inside a timer callback.
SpecFaults == Init /\ [][NextFaults]_vars

-----------------------------------------------------------------------------
\* The engine under its settings interface while it is not playing: the
\* parameter setters, mute and volume, the layer toggles, the settings snapshot
\* and the gain automation.

\* The preferences an earlier session may have left in localStorage.
StoredVolumes == {Absent, NumberToString(300)}

InitSettings ==
    /\ ModuleLoaded
    /\ lsVolume \in StoredVolumes
    /\ lsMuted \in BOOLEAN

NextSettings ==
    \/ SetVolume
    \/ ToggleMute
    \/ SetPadOscillatorType
    \/ SetPadFilterFrequency
    \/ SetChordSpeed
    \/ ToggleHeartbeat
    \/ ToggleArpeggiator
    \/ ApplyOwnSettings
    \/ GainRamp

SpecSettings == InitSettings /\ [][NextSettings]_vars

-----------------------------------------------------------------------------
\* The engine under activation, volume and mute, with start and stop (one
\* startAmbient() call at a time) and no timer firing, in a browser whose
\* localStorage may hold a volume this engine did not write.

\* What localStorage may hold under 'ambientVolume': nothing, "0.3" or "5".
StoredAnyVolumes == {Absent, NumberToString(300), NumberToString(5000)}

InitVolume ==
    /\ ModuleLoaded
    /\ lsVolume \in StoredAnyVolumes
    /\ lsMuted \in BOOLEAN

NextVolume ==
    \/ InitAudio
    \/ SetVolume
    \/ ToggleMute
    \/ ApplyOwnSettings
    \/ GainRamp
    \/ awaiting = 0 /\ StartAmbient
    \/ StartResumed
    \/ StartRejected
    \/ StopAmbient

SpecVolume == InitVolume /\ [][NextVolume]_vars

-----------------------------------------------------------------------------
\* The pad layer under its three parameter setters while the engine plays: start
\* and stop (one startAmbient() call at a time), the setters, and the pad's
\* chord-transition timer.  The timers of the other layers stay pending.

NextParams ==
    \/ awaiting = 0 /\ StartAmbient
    \/ StartResumed
    \/ StartRejected
    \/ StopAmbient
    \/ SetPadOscillatorType
    \/ SetPadFilterFrequency
    \/ SetChordSpeed
    \/ ChordProgression

SpecParams == Init /\ [][NextParams]_vars

-----------------------------------------------------------------------------
\* Volume and mute in a browser whose localStorage.setItem throws (quota
\* exceeded, storage disabled).  removeItem does not throw, so unmuting has no
\* failing write.

\* localStorage.setItem threw inside `op`; volume and isMuted were as in `before`
\* when the body of op began.
StorageFails(S, op, before) ==
    Note(S, "storageFail", op, 0, <<before.currentVolume, before.isMuted>>, 0)

\* The exception leaves the exported function `op`.
Raise(S, op) == Note(S, "raise", op, 0, <<>>, 0)

\* setVolume(value) whose setItem throws: the catch warns and the call returns.
setVolumeStorageFails(S, value, outcome) ==
    LET S1 == initAudio(S, outcome)
        newVolume == MathMax(0, MathMin(1000, value))
    IN  IF S1.audioContext = "null" THEN S1
        ELSE StorageFails([S1 EXCEPT !.currentVolume = newVolume,
                                     !.gainTarget = IF S1.isMuted THEN @ ELSE newVolume],
                          "setVolume", S1)

\* toggleMute() whose setItem('ambientMuted', 'true') throws: there is no try,
\* the exception leaves toggleMute after the flag and the ramp were set.
toggleMuteStorageFails(S, outcome) ==
    LET S1 == initAudio(S, outcome)
        S2 == [S1 EXCEPT !.isMuted = ~@]
    IN  IF S1.audioContext = "null" THEN S1
        ELSE IF S2.isMuted
             THEN Raise(StorageFails(
                      [S2 EXCEPT !.currentVolume = IF S2.gainValue > 1 THEN S2.gainValue ELSE @,
                                 !.gainTarget = 0],
                      "toggleMute", S1), "toggleMute")
             ELSE [S2 EXCEPT !.gainValue = 0,
                             !.gainTarget = S2.currentVolume,
                             !.lsMuted = FALSE]

SetVolumeStorageFails ==
    \E v \in VolumeInputs, o \in Outcomes :
        Becomes("setVolume", setVolumeStorageFails(Called(Cur, "setVolume", v), v, o))

ToggleMuteStorageFails ==
    \E o \in Outcomes : Becomes("toggleMute", toggleMuteStorageFails(Cur, o))

NextStorage ==
    \/ InitAudio
    \/ SetVolume
    \/ ToggleMute
    \/ SetVolumeStorageFails
    \/ ToggleMuteStorageFails
    \/ GainRamp

SpecStorage == InitSettings /\ [][NextStorage]_vars

-----------------------------------------------------------------------------
\* The engine under applySettings with the snapshots a preset may hold, while
\* it plays or not: start and stop (one startAmbient() call at a time),
\* applySettings, and the timers of the heartbeat and the arpeggio.

\* The snapshots applied: every combination of the three flags.
SnapshotInputs ==
    [volume : {<<"number", 300>>},
     isMuted : {<<"boolean", b>> : b \in BOOLEAN},
     padOscType : {<<"string", "square">>},
     padFilterFreq : {<<"number", 800>>},
     chordSpeedMs : {<<"number", 20000>>},
     heartbeatEnabled : {<<"boolean", b>> : b \in BOOLEAN},
     arpeggiatorEnabled : {<<"boolean", b>> : b \in BOOLEAN}]

ApplySettings ==
    \E settings \in SnapshotInputs, o \in Outcomes :
        Becomes("applySettings",
                applySettings(Called(Cur, "applySettings", settings), settings, o))

NextApply ==
    \/ awaiting = 0 /\ StartAmbient
    \/ StartResumed
    \/ StopAmbient
    \/ ApplySettings
    \/ PlayBeatPair
    \/ PlayArpNote
    \/ Cleanup

SpecApply == Init /\ [][NextApply]_vars

-----------------------------------------------------------------------------
\* applySettings with any argument: null, undefined, or an object whose fields
\* may be absent, of the wrong type, or (the timbre) a string that names no
\* oscillator type, with start and stop (one startAmbient() call at a time) and
\* the ramp of the master gain.

\* The JavaScript value null.
Null == <<"null">>

\* An object argument, with its fields.
Object(fields) == <<"object", fields>>

\* !settings
Falsy(settings) == settings = Null \/ settings = Undefined

\* applySettings(settings) for any argument: the guard of line 729, then the body.
applySettingsOf(S, settings, outcome) ==
    IF Falsy(settings) THEN S ELSE applySettings(S, settings[2], outcome)

\* The arguments tried: the numeric fields are all numbers or all not, and the
\* two layer flags are both booleans or both not.
AnySnapshots ==
    {Null, Undefined} \cup
    {Object([volume |-> IF numbers THEN <<"number", 300>> ELSE <<"string", "0.3">>,
             isMuted |-> isMutedField,
             padOscType |-> padOscTypeField,
             padFilterFreq |-> IF numbers THEN <<"number", 800>> ELSE <<"string", "800">>,
             chordSpeedMs |-> IF numbers THEN <<"number", 20000>> ELSE Undefined,
             heartbeatEnabled |-> IF flags THEN <<"boolean", TRUE>> ELSE <<"string", "true">>,
             arpeggiatorEnabled |-> IF flags THEN <<"boolean", TRUE>> ELSE <<"number", 1>>]) :
        numbers \in BOOLEAN, flags \in BOOLEAN,
        isMutedField \in {<<"boolean", TRUE>>, <<"boolean", FALSE>>, Undefined},
        padOscTypeField \in {<<"string", "square">>, <<"string", "noise">>, <<"number", 5>>}}

ApplyAnySettings ==
    \E settings \in AnySnapshots, o \in Outcomes :
        Becomes("applySettings",
                applySettingsOf(Called(Cur, "applySettings", settings), settings, o))

NextSnapshots ==
    \/ awaiting = 0 /\ StartAmbient
    \/ StartResumed
    \/ StopAmbient
    \/ ApplyAnySettings
    \/ GainRamp

SpecSnapshots == Init /\ [][NextSnapshots]_vars

-----------------------------------------------------------------------------

\* Loading a preset (handleLoadPreset of the UI): the string stored under the
\* preset's key is read, parsed and applied.

\* What localStorage.getItem may return for a preset's key: null, or a text.  A
\* text that JSON.parse throws on is <<"text", t, "SyntaxError">> (t = "" is the
\* empty string), a text it returns the object v for is <<"json", v>>, and the
\* text "null", for which it returns null, is <<"json null">>.
EmptyText == <<"text", "", "SyntaxError">>

Truncated == <<"text", "{\"volume\":0.3", "SyntaxError">>

JsonNull == <<"json null">>

\* JSON.stringify(settings), as handleSavePreset stores it.
JSONstringify(settings) == <<"json", settings>>

\* JSON.parse(text) returned a value (it throws otherwise).
Parses(text) == text[1] \in {"json", "json null"}

JSONparse(text) == IF text = JsonNull THEN "null" ELSE text[2]

\* The UI reports to the user: alert(...).
Alert(S, what) == Note(S, "alert", what, 0, <<>>, 0)

\* handleLoadPreset applying a built-in snapshot when the key is missing.
handleLoadPreset_DefaultsOnMissing(S, settingsString, outcome) ==
    IF settingsString = Absent
    THEN applySettings(S, [volume |-> <<"number", 700>>, isMuted |-> <<"boolean", FALSE>>,
                           padOscType |-> <<"string", "triangle">>,
                           padFilterFreq |-> <<"number", 2000>>,
                           chordSpeedMs |-> <<"number", 12000>>,
                           heartbeatEnabled |-> <<"boolean", FALSE>>,
                           arpeggiatorEnabled |-> <<"boolean", FALSE>>], outcome)
    ELSE IF settingsString = EmptyText THEN Alert(S, "not found")
    ELSE IF ~Parses(settingsString) THEN Alert(S, "corrupted")
    ELSE IF settingsString = JsonNull THEN Alert(S, "corrupted")
    ELSE Note(applySettings(S, JSONparse(settingsString), outcome), "status", "loaded", 0, <<>>, 0)

\* handleLoadPreset, with settingsString what getItem returned for the key.
\* applySettings(null) returns at once and `settings.volume` then throws into
\* the catch.
handleLoadPreset(S, settingsString, outcome) ==
    IF settingsString = Absent \/ settingsString = EmptyText THEN Alert(S, "not found")
    ELSE IF ~Parses(settingsString) THEN Alert(S, "corrupted")
    ELSE IF settingsString = JsonNull THEN Alert(S, "corrupted")
    ELSE Note(applySettings(S, JSONparse(settingsString), outcome), "status", "loaded", 0, <<>>, 0)

\* The values a preset's key may hold that are no snapshot.
BadPresets == {Absent, EmptyText, Truncated, JsonNull}

PresetInputs == BadPresets \cup {JSONstringify(settings) : settings \in SnapshotInputs}

HandleLoadPreset ==
    \E settingsString \in PresetInputs, o \in Outcomes :
        Becomes("handleLoadPreset",
                handleLoadPreset(Called(Cur, "handleLoadPreset", settingsString),
                                 settingsString, o))

NextPresets ==
    \/ awaiting = 0 /\ StartAmbient
    \/ StartResumed
    \/ StopAmbient
    \/ HandleLoadPreset

SpecPresets == Init /\ [][NextPresets]_vars

-----------------------------------------------------------------------------
\* The heartbeat layer alone: start and stop (one startAmbient() call at a
\* time), the heartbeat toggle, the beat-pair timer and the units' cleanup.

NextHeartbeat ==
    \/ awaiting = 0 /\ StartAmbient
    \/ StartResumed
    \/ StopAmbient
    \/ ToggleHeartbeat
    \/ PlayBeatPair
    \/ Cleanup

SpecHeartbeat == Init /\ [][NextHeartbeat]_vars

-----------------------------------------------------------------------------
\* Uninterrupted playback of the always-on layers, for properties of progress:
\* start and stop (one startAmbient() call at a time) and the timers of the
\* pad, the bassline and the melody.  The browser runs every pending timer's
\* callback in the end: each timer action is weakly fair.  The ids of fired
\* timers, which stay in activeTimers and which nothing reads but clearTimeout
\* (without effect on them), are left out of the registry here, so that a run
\* of any length stays within the registry's bound.

Forget(S) == [S EXCEPT !.activeTimers = BagFilter(@, LAMBDA e : e.ref # Fired)]

RunChordProgression ==
    \E cb \in DOMAIN timers :
        /\ cb.kind = "chordProgression"
        /\ \E S \in FiredStates(cb) :
              \E T \in {Forget(chordProgression(S, cb.idx))} : Becomes("chordProgression", T)

RunPlayBassNote ==
    \E cb \in DOMAIN timers :
        /\ cb.kind = "playBassNote"
        /\ \E S \in FiredStates(cb) :
              \E T \in {Forget(playBassNote(S))} : Becomes("playBassNote", T)

\* The notes of a phrase are due within 4 s and their cleanups within 7.1 s of
\* the phrase; the next phrase is due 10 s after it at the earliest.
MelodyQuiet ==
    \A cb \in DOMAIN timers :
        /\ cb.kind # "playMelodyNote"
        /\ cb.kind = "cleanup" => cb.unit = Gone \/ cb.unit.type # "melody"

RunPlayPhrase ==
    \E cb \in DOMAIN timers :
        /\ cb.kind = "playPhrase"
        /\ MelodyQuiet
        /\ \E S \in FiredStates(cb) :
              \E T \in {Forget(playPhrase(S, cb.idx))} : Becomes("playPhrase", T)

RunPlayMelodyNote ==
    \E cb \in DOMAIN timers :
        /\ cb.kind = "playMelodyNote"
        /\ \E S \in FiredStates(cb) :
              \E T \in {Forget(playMelodyNote(S, cb.idx))} : Becomes("playMelodyNote", T)

RunCleanup ==
    \E cb \in DOMAIN timers :
        /\ cb.kind = "cleanup"
        /\ \E S \in FiredStates(cb) :
              \E T \in {Forget(cleanup(S, cb.unit))} : Becomes("cleanup", T)

NextLive ==
    \/ awaiting = 0 /\ StartAmbient
    \/ StartResumed
    \/ StopAmbient
    \/ RunChordProgression
    \/ RunPlayBassNote
    \/ RunPlayPhrase
    \/ RunPlayMelodyNote
    \/ RunCleanup

\* A pending pad timer can always run: its callback stays within every bound
\* (PadDueCanRun is an invariant of SpecLive), so PadDue is the enabling
\* condition of RunChordProgression and PadRuns is its weak fairness.
PadDue == \E cb \in DOMAIN timers : cb.kind = "chordProgression"

PadDueCanRun ==
    \A cb \in DOMAIN timers :
        cb.kind = "chordProgression" =>
            \E S \in FiredStates(cb) :
                LET T == Forget(chordProgression(S, cb.idx))
                IN  /\ BagSize(T.activeTimers) <= MaxTimers
                    /\ BagSize(FiredEntries(T)) <= MaxFired
                    /\ BagSize(T.activeOscillators) <= MaxUnits
                    /\ T.log # log

PadRuns == []<>(~PadDue) \/ []<><<RunChordProgression>>_vars

TimersRun ==
    /\ PadRuns
    /\ WF_vars(RunPlayBassNote)
    /\ WF_vars(RunPlayPhrase)
    /\ WF_vars(RunPlayMelodyNote)
    /\ WF_vars(RunCleanup)

SpecLive == Init /\ [][NextLive]_vars /\ TimersRun

-----------------------------------------------------------------------------
\* Properties of playback control.

\* The events of kind ev recorded by the last step.
Events(ev) == SelectSeq(log, LAMBDA e : e.ev = ev)

\* The units synthesized for `layer` by the last step.
Synthesized(layer) == SelectSeq(log, LAMBDA e : e.ev = "synth" /\ e.layer = layer)

\* The pending callbacks that generate sound or reschedule a layer: all but the
\* units' self-cleanup.
GeneratorKinds == {"chordProgression", "playBassNote", "playPhrase", "playMelodyNote",
                   "playBeatPair", "playArpNote"}

\* C1: every stopAmbient() call ends with isPlaying false and both registries
\* empty, and a stopAmbient() call that directly follows a stopAmbient() call
\* changes nothing of the engine state.
C1_StopIdempotent ==
    [][lastOp' = "stopAmbient" =>
          /\ ~isPlaying'
          /\ DOMAIN activeTimers' = {}
          /\ DOMAIN activeOscillators' = {}
          /\ (lastOp = "stopAmbient" => UNCHANGED progVars)]_vars

\* stopAmbient() ran while playing and canceled pending timers.
C1_Witness ==
    /\ lastOp = "stopAmbient"
    /\ Len(Events("stop")) = 1
    /\ Events("stop")[1].playing = FALSE
    /\ ~isPlaying

\* C2: while the engine is stopped no callback is pending, of no layer's
\* generator in particular: stopAmbient() cancels every pending timer and none
\* appears before the next start.
C2_NoPendingAfterStop ==
    ~isPlaying =>
        /\ \A cb \in DOMAIN timers : cb.kind \notin GeneratorKinds
        /\ DOMAIN timers = {}

\* stopAmbient() canceled the pending callbacks of a running engine with the
\* arpeggio on: at least pad, bass, melody and arpeggio timers.
C2_Witness ==
    /\ lastOp = "stopAmbient"
    /\ \E i \in DOMAIN log : log[i].ev = "stop" /\ log[i].n >= 4 /\ log[i].arpeggiator
    /\ DOMAIN timers = {}

\* C3: every unit any step synthesizes is synthesized in a state where isPlaying
\* is true.
C3_SynthesisOnlyWhilePlaying ==
    \A i \in DOMAIN log : log[i].ev = "synth" => log[i].playing

\* Timer callbacks synthesized units: an arpeggio note, or a heartbeat pair.
C3_Witness ==
    /\ lastOp = "timer"
    /\ \/ Len(Synthesized("arpeggio")) > 0
       \/ Len(Synthesized("heartbeat")) > 0
    /\ \A i \in DOMAIN log : log[i].ev = "synth" => log[i].playing

\* C4: a startAmbient() call made while isPlaying is true leaves isPlaying, the
\* chord state, both registries and the pending timers unchanged, synthesizes
\* nothing and suspends at no await.
C4_StartWhilePlayingNoOp ==
    [][lastOp' = "startAmbient" /\ isPlaying =>
          /\ UNCHANGED <<isPlaying, currentPadChordNotes, activeOscillators,
                         activeTimers, timers, awaiting>>
          /\ log' = <<>>]_vars

\* startAmbient() returned in a playing engine without synthesizing anything:
\* the call was made while playing (a call that starts the layers synthesizes
\* the pad).
C4_Witness ==
    /\ lastOp = "startAmbient"
    /\ isPlaying
    /\ log = <<>>
    /\ DOMAIN activeOscillators # {}

-----------------------------------------------------------------------------
\* Properties of the arpeggio and the heartbeat.

\* The note sequence createArpeggio derives from a chord.
ArpNotesOf(chord) == chord \o <<chord[2] * 2>>

\* A callback or a registry entry with the unit of its cleanup closure left out.
Anonymous(cb) == [cb EXCEPT !.unit = NoUnit]

ArpeggioUnits(units) == BagFilter(units, LAMBDA u : u.type = "arpeggio")

OtherUnits(units) == BagFilter(units, LAMBDA u : u.type # "arpeggio")

HeartbeatUnits(units) == BagFilter(units, LAMBDA u : u.type = "heartbeat")

\* The pending callbacks other than arpeggio notes, by what they will run.
OtherTimers(pending) ==
    BagImage(BagFilter(pending, LAMBDA cb : cb.kind # "playArpNote"), Anonymous)

\* The entries of activeTimers other than the tagged ones, by what they denote.
OtherEntries(entries) ==
    BagImage(BagFilter(entries, LAMBDA e : e.type # "arpeggio_note"),
             LAMBDA e : [e EXCEPT !.ref = Anonymous(@)])

\* C5: every arpeggio note that is synthesized belongs to the sequence derived
\* from the chord that is currentPadChordNotes when it is synthesized.
C5_ArpeggioFollowsChord ==
    \A i \in DOMAIN log :
        log[i].ev = "synth" /\ log[i].layer = "arpeggio" =>
            /\ Len(log[i].chord) > 0
            /\ log[i].seq = ArpNotesOf(log[i].chord)

\* C6: a pad transition that changes the chord with the arpeggiator enabled
\* runs, in that transition, exactly one stopArpeggioSequence and after it exactly
\* one createArpeggio start, whose sequence and first note derive from the chord
\* just emitted.
C6_ChordChangeRestartsArpeggio ==
    \A i \in DOMAIN log :
        log[i].ev = "chord" /\ log[i].arpeggiator /\ log[i].seq # log[i].chord =>
            LET ops == SelectSeq(log, LAMBDA e : e.ev \in {"arpStop", "arpStart"})
                played == Synthesized("arpeggio")
            IN  /\ Len(ops) = 2
                /\ ops[1].ev = "arpStop"
                /\ ops[2].ev = "arpStart"
                /\ ops[2].seq = ArpNotesOf(log[i].chord)
                /\ ops[2].seq # ArpNotesOf(log[i].seq)
                /\ Len(played) = 1
                /\ played[1].seq = ArpNotesOf(log[i].chord)
                /\ played[1].chord = log[i].chord

\* A pad transition's timer changed the chord with the arpeggiator enabled and
\* canceled the running sequence's pending note.
C6_Witness ==
    /\ lastOp = "timer"
    /\ \E i \in DOMAIN log :
          /\ log[i].ev = "chord" /\ log[i].arpeggiator
          /\ Len(log[i].seq) > 0 /\ log[i].seq # log[i].chord
    /\ \E i \in DOMAIN log : log[i].ev = "arpStop" /\ log[i].n >= 1

\* C7: every arpeggio unit is synthesized in a state where arpeggiatorEnabled and
\* isPlaying are true and currentPadChordNotes is one of the chords.
C7_ArpeggioPreconditions ==
    \A i \in DOMAIN log :
        log[i].ev = "synth" /\ log[i].layer = "arpeggio" =>
            /\ log[i].arpeggiator
            /\ log[i].playing
            /\ \E k \in DOMAIN chords : log[i].chord = chords[k]

\* A start synthesized the first arpeggio note after the pad of the same start.
C7_Witness ==
    /\ lastOp \in {"startAmbient", "startResumed"}
    /\ \E i, j \in DOMAIN log :
          /\ i < j
          /\ log[i].ev = "synth" /\ log[i].layer = "pad"
          /\ log[j].ev = "synth" /\ log[j].layer = "arpeggio"

\* C8: toggleArpeggiator() turning the arpeggiator off while playing leaves no
\* arpeggio unit in activeOscillators, no tagged entry in activeTimers and no
\* pending arpeggio note, and leaves the units and the timers of the other
\* layers as they were.
C8_ArpeggioOffClearsOnlyArpeggio ==
    [][lastOp' = "toggleArpeggiator" /\ isPlaying /\ arpeggiatorEnabled =>
          /\ ~arpeggiatorEnabled'
          /\ DOMAIN ArpeggioUnits(activeOscillators') = {}
          /\ \A e \in DOMAIN activeTimers' : e.type # "arpeggio_note"
          /\ \A cb \in DOMAIN timers' : cb.kind # "playArpNote"
          /\ OtherUnits(activeOscillators') = OtherUnits(activeOscillators)
          /\ OtherTimers(timers') = OtherTimers(timers)
          /\ OtherEntries(activeTimers') = OtherEntries(activeTimers)]_vars

\* The arpeggiator was toggled off mid-flight: a pending note was canceled and
\* the other layers' timers and units are still there.
C8_Witness ==
    /\ lastOp = "toggleArpeggiator"
    /\ isPlaying /\ ~arpeggiatorEnabled
    /\ \E i \in DOMAIN log : log[i].ev = "arpStop" /\ log[i].n = 1
    /\ \E cb \in DOMAIN timers : cb.kind = "chordProgression"
    /\ \E u \in DOMAIN activeOscillators : u.type = "pad"

\* C9: toggleHeartbeat() turning the heartbeat on while playing synthesizes and
\* registers two heartbeat units; turning it off while playing leaves no
\* heartbeat unit in activeOscillators; and no heartbeat unit is synthesized in a
\* state where heartbeatEnabled is false.
C9_HeartbeatToggle ==
    /\ [][lastOp' = "toggleHeartbeat" /\ isPlaying =>
             IF ~heartbeatEnabled
             THEN /\ heartbeatEnabled'
                  /\ Len(Synthesized("heartbeat")') = 2
                  /\ BagSize(HeartbeatUnits(activeOscillators')) =
                         BagSize(HeartbeatUnits(activeOscillators)) + 2
             ELSE /\ ~heartbeatEnabled'
                  /\ DOMAIN HeartbeatUnits(activeOscillators') = {}
                  /\ log' = <<>>]_vars
    /\ [](\A i \in DOMAIN log :
              log[i].ev = "synth" /\ log[i].layer = "heartbeat" => log[i].heartbeat)

\* The heartbeat was toggled off while playing with the timer of its next pair
\* still pending.
C9_Witness ==
    /\ lastOp = "toggleHeartbeat"
    /\ isPlaying /\ ~heartbeatEnabled
    /\ \E cb \in DOMAIN timers : cb.kind = "playBeatPair"
    /\ DOMAIN HeartbeatUnits(activeOscillators) = {}

-----------------------------------------------------------------------------
\* Properties of the settings snapshot.

\* What getSettings() reads.
SettingsFields ==
    <<currentVolume, isMuted, padOscType, padFilterFreq, chordSpeedMs,
      heartbeatEnabled, arpeggiatorEnabled>>

\* C10: applySettings(getSettings()) leaves the volume, the mute flag, the pad
\* oscillator type, the pad filter frequency, the chord period and both layer
\* flags as they were.
C10_OwnSettingsRoundTrip ==
    [][lastOp' = "applySettings(getSettings())" => UNCHANGED SettingsFields]_vars

\* The snapshot of a muted engine with every field off its default was applied.
C10_Witness ==
    /\ lastOp = "applySettings(getSettings())"
    /\ isMuted
    /\ currentVolume = 300
    /\ padOscType = "square"
    /\ padFilterFreq = 800
    /\ chordSpeedMs = 20000
    /\ heartbeatEnabled
    /\ arpeggiatorEnabled

-----------------------------------------------------------------------------
\* Properties of the parameter setters.

\* The argument of the exported function the last step called.
CallArg == Events("call")[1].seq[1]

\* min(hi, max(lo, x)) on the integers.
Clamp(lo, hi, x) == IF x < lo THEN lo ELSE IF x > hi THEN hi ELSE x

\* C11: setPadFilterFrequency(x) stores min(10000, max(100, x)) and
\* setChordSpeed(x) stores min(30000, max(4000, x)), and in every reachable
\* state padFilterFreq is within 100..10000 and chordSpeedMs within 4000..30000.
C11_SettersClamp ==
    /\ padFilterFreq \in 100..10000
    /\ chordSpeedMs \in 4000..30000
    /\ lastOp = "setPadFilterFrequency" => padFilterFreq = Clamp(100, 10000, CallArg)
    /\ lastOp = "setChordSpeed" => chordSpeedMs = Clamp(4000, 30000, CallArg)

\* setPadFilterFrequency(999999) stored 10000 in an engine whose chord period
\* setChordSpeed(1) had set to 4000.
C11_Witness ==
    /\ lastOp = "setPadFilterFrequency"
    /\ CallArg = 999999
    /\ padFilterFreq = 10000
    /\ chordSpeedMs = 4000

-----------------------------------------------------------------------------
\* Properties of volume and mute.

C15_MutedForcesZero ==
    /\ [](isMuted => gainTarget = 0)
    /\ [][isMuted /\ isMuted' => gainValue' <= gainValue]_vars
    /\ [][isMuted /\ gainTarget' # 0 => lastOp' = "toggleMute" /\ ~isMuted']_vars

\* setVolume(0.3) was called on a muted, playing engine: the volume is stored
\* and the gain target stays zero.
C15_Witness ==
    /\ lastOp = "setVolume"
    /\ CallArg = 300
    /\ isMuted /\ isPlaying
    /\ currentVolume = 300
    /\ gainTarget = 0

-----------------------------------------------------------------------------
\* Properties of the layers' timers and units.

\* The layer a pending callback belongs to: the generator it runs, or the layer
\* of the unit it cleans up.
TimerLayer(cb) ==
    CASE cb.kind = "chordProgression" -> "pad"
      [] cb.kind = "playBassNote" -> "bass"
      [] cb.kind \in {"playPhrase", "playMelodyNote"} -> "melody"
      [] cb.kind = "playBeatPair" -> "heartbeat"
      [] cb.kind = "playArpNote" -> "arpeggio"
      [] OTHER -> cb.unit.type

\* The number of pending timers of a layer.
Pending(layer) == BagSize(BagFilter(timers, LAMBDA cb : TimerLayer(cb) = layer))

\* The number of registered units of a layer.
Registered(layer) == BagSize(BagFilter(activeOscillators, LAMBDA u : u.type = layer))

\* The last step started the layers of a stopped engine with the defaults:
\* timbre triangle, filter 2000, chord period 12000, volume 0.7, both toggles off.
StartedFromDefaults ==
    /\ \E i \in DOMAIN log : log[i].ev = "start" /\ ~log[i].playing
    /\ padOscType = "triangle" /\ padFilterFreq = 2000 /\ chordSpeedMs = 12000
    /\ currentVolume = 700
    /\ ~heartbeatEnabled /\ ~arpeggiatorEnabled

C14_TextureSingleton ==
    /\ Registered("texture") <= 1
    /\ isPlaying => Registered("texture") = 1

\* A second, overlapping startAmbient() call started the layers of an engine
\* that was already playing, and there is still one texture unit.
C14_Witness ==
    /\ lastOp = "startResumed"
    /\ \E i \in DOMAIN log : log[i].ev = "start" /\ log[i].playing
    /\ Registered("texture") = 1
    /\ Registered("pad") > 0

\* The layers other than the bassline.
RegisteringLayers == LayerTypes \ {"bass"}

\* C16: every unit a step synthesizes, of any layer, is in activeOscillators
\* when the step ends, so that stopAmbient() finds and fades it.
C16_UnitsRegistered ==
    \A layer \in LayerTypes : Len(Synthesized(layer)) <= Registered(layer)

\* What holds of C16: the units of every layer but the bassline are registered.
C16_UnitsRegisteredButBass ==
    \A layer \in RegisteringLayers : Len(Synthesized(layer)) <= Registered(layer)

\* C17: every entry of activeTimers refers to a pending timer: none refers to
\* a timer whose callback has run.
C17_RegistryIsPending ==
    \A e \in DOMAIN activeTimers : e.ref # Fired /\ Copies(timers, e.ref) > 0

\* The module state but the pad's oscillator type.
ButPadOscType == <<audioContext, gainValue, gainTarget, activeOscillators, activeTimers,
                   isMuted, currentVolume, isPlaying, heartbeatEnabled, arpeggiatorEnabled,
                   currentPadChordNotes, padFilterFreq, chordSpeedMs, timers, awaiting,
                   lsVolume, lsMuted>>

\* The module state but the pad's filter frequency.
ButPadFilterFreq == <<audioContext, gainValue, gainTarget, activeOscillators, activeTimers,
                      isMuted, currentVolume, isPlaying, heartbeatEnabled,
                      arpeggiatorEnabled, currentPadChordNotes, padOscType, chordSpeedMs,
                      timers, awaiting, lsVolume, lsMuted>>

\* The module state but the chord speed.
ButChordSpeed == <<audioContext, gainValue, gainTarget, activeOscillators, activeTimers,
                   isMuted, currentVolume, isPlaying, heartbeatEnabled, arpeggiatorEnabled,
                   currentPadChordNotes, padOscType, padFilterFreq, timers, awaiting,
                   lsVolume, lsMuted>>

\* C18: setPadOscillatorType, setPadFilterFrequency and setChordSpeed change
\* nothing but their own parameter (the registry of units, the registry of
\* timers, the pending timers, the chord state and isPlaying stay as they were)
\* and synthesize nothing; every pad unit is synthesized with the oscillator type
\* and the filter frequency that are current at that moment.
C18_SettersOnlyOwnParameter ==
    [][/\ lastOp' = "setPadOscillatorType" =>
              UNCHANGED ButPadOscType /\ Events("synth")' = <<>>
       /\ lastOp' = "setPadFilterFrequency" =>
              UNCHANGED ButPadFilterFreq /\ Events("synth")' = <<>>
       /\ lastOp' = "setChordSpeed" =>
              UNCHANGED ButChordSpeed /\ Events("synth")' = <<>>
       /\ \A i \in DOMAIN Synthesized("pad")' :
              /\ Synthesized("pad")'[i].padOscType = padOscType'
              /\ Synthesized("pad")'[i].padFilterFreq = padFilterFreq']_vars

\* A setter changed its parameter while pad units sound and the pad's
\* chord-transition timer is pending.
C18_Witness ==
    /\ lastOp = "setPadOscillatorType"
    /\ CallArg = "square"
    /\ padOscType = "square"
    /\ isPlaying
    /\ Registered("pad") > 0
    /\ Pending("pad") > 0

\* A chord transition synthesized pad units with parameters set while playing.
C18_NextUnitUsesNewValue ==
    /\ lastOp = "timer"
    /\ Len(Synthesized("pad")) > 0
    /\ padOscType = "square"
    /\ padFilterFreq = 800

\* C19: a setPadOscillatorType call with a type outside validOscTypes changes
\* nothing of the engine state.
C19_InvalidTypeRejected ==
    [][lastOp' = "setPadOscillatorType" /\ CallArg' \notin validOscTypes =>
          UNCHANGED progVars]_vars

\* setPadOscillatorType("noise") was called after the type was set to a
\* non-default value, while playing.
C19_Witness ==
    /\ lastOp = "setPadOscillatorType"
    /\ CallArg = "noise"
    /\ padOscType = "square"
    /\ isPlaying

-----------------------------------------------------------------------------
\* Properties of a failed initialization.

\* The exported functions that begin with initAudio() and return when it failed.
NeedGraph == {"initAudio", "startAmbient", "setVolume", "toggleMute"}

\* C20: a call of initAudio, startAmbient, setVolume or toggleMute that ends with
\* the audio graph not created (audioContext null) changes nothing of the engine
\* state, and while the graph is not created the engine is not playing, no start
\* is suspended and both registries and the timer table are empty.
C20_FailedInitIsNoOp ==
    [][audioContext' = "null" =>
          /\ lastOp' \in NeedGraph => UNCHANGED progVars
          /\ ~isPlaying' /\ awaiting' = 0
          /\ activeOscillators' = EmptyBag
          /\ activeTimers' = EmptyBag
          /\ timers' = EmptyBag]_vars

\* toggleMute() was called, the graph could not be created, and the engine is
\* unmuted although localStorage holds a muted preference.
C20_Witness ==
    /\ lastOp = "toggleMute"
    /\ audioContext = "null"
    /\ ~isMuted
    /\ lsMuted

-----------------------------------------------------------------------------
\* Properties of a rejected device resume.

\* The module state but the count of suspended startAmbient() calls.
ButAwaiting == <<audioContext, gainValue, gainTarget, activeOscillators, activeTimers,
                 isMuted, currentVolume, isPlaying, heartbeatEnabled, arpeggiatorEnabled,
                 currentPadChordNotes, padOscType, padFilterFreq, chordSpeedMs, timers,
                 lsVolume, lsMuted>>

\* C21: when the resume awaited by a startAmbient() call is rejected, the call
\* ends and changes nothing else: isPlaying stays false, no layer is started,
\* both registries and the timer table stay empty; and a startAmbient() call
\* that follows awaits the resume again.
C21_RejectedResumeNonFatal ==
    [][/\ lastOp' = "startRejected" =>
              /\ UNCHANGED ButAwaiting
              /\ awaiting' = awaiting - 1
              /\ ~isPlaying'
              /\ Events("start")' = <<>> /\ Events("synth")' = <<>>
              /\ activeOscillators' = EmptyBag
              /\ activeTimers' = EmptyBag
              /\ timers' = EmptyBag
       /\ lastOp = "startRejected" /\ lastOp' = "startAmbient" =>
              awaiting' = awaiting + 1 /\ audioContext' = "suspended"]_vars

\* The resume awaited by a startAmbient() call was rejected: no call is
\* suspended any more and the context is still suspended.
C21_Witness ==
    /\ lastOp = "startRejected"
    /\ awaiting = 0
    /\ audioContext = "suspended"
    /\ ~isPlaying

-----------------------------------------------------------------------------
\* Properties of faults during synthesis.

\* The layers whose callbacks reschedule themselves.
LoopingLayers == {"pad", "bass", "melody", "heartbeat", "arpeggio"}

\* The number of pending timers of a layer that will emit or reschedule it.
Chains(layer) ==
    BagSize(BagFilter(timers, LAMBDA cb : cb.kind \in GeneratorKinds /\ TimerLayer(cb) = layer))

\* C22: after a callback of the pad, bassline, melody, heartbeat or arpeggio
\* layer in which the synthesis of a unit threw, that layer still has a timer
\* pending for its next emission.
C22_FaultKeepsChain ==
    \A i \in DOMAIN log :
        log[i].ev = "fault" /\ log[i].layer \in LoopingLayers => Chains(log[i].layer) > 0

-----------------------------------------------------------------------------
\* Properties of the persisted volume and mute.

\* No exception leaves an exported function whose storage write failed.
StorageFailureNotRaised ==
    (\E i \in DOMAIN log : log[i].ev = "storageFail") => Events("raise") = <<>>

\* After a call whose storage write failed, volume and isMuted are what they
\* were when the call began.
StorageFailureKeepsState ==
    \A i \in DOMAIN log :
        log[i].ev = "storageFail" =>
            currentVolume = log[i].seq[1] /\ isMuted = log[i].seq[2]

\* C23: a setVolume or toggleMute call whose storage write fails raises nothing
\* into its caller and leaves volume and isMuted as they were before the call.
C23_StorageFailureHarmless == StorageFailureNotRaised /\ StorageFailureKeepsState

\* getVolume() after a reload, before the graph exists: the stored volume, 0.7
\* when none is stored.
ReloadedVolume == IF lsVolume # Absent THEN parseFloat(lsVolume) ELSE 700

\* getMuteState() after a reload, before the graph exists.
ReloadedMuteState == lsMuted

\* With the graph created, the persisted mute key reflects isMuted.
PersistedMuteCurrent == audioContext # "null" => ReloadedMuteState = isMuted

\* C24: with the graph created, the persisted volume is the in-memory volume
\* and the persisted mute key reflects isMuted, so that getVolume() and
\* getMuteState() answer after a reload what they answer now.
C24_PersistedIsCurrent ==
    audioContext # "null" => ReloadedVolume = currentVolume /\ ReloadedMuteState = isMuted

-----------------------------------------------------------------------------
\* Properties of applySettings.

\* C25: an applySettings(s) call that ends with the graph created leaves
\* isMuted, heartbeatEnabled and arpeggiatorEnabled equal to s's values; when
\* s's heartbeat flag equals the current one the call synthesizes no beat and
\* leaves the heartbeat's timers and units as they were, and when s's
\* arpeggiator flag equals the current one it neither starts nor stops an
\* arpeggio sequence and leaves the arpeggio's timers and units as they were.
C25_ApplyEdgeTriggered ==
    [][lastOp' = "applySettings" =>
          /\ heartbeatEnabled' = CallArg'.heartbeatEnabled[2]
          /\ arpeggiatorEnabled' = CallArg'.arpeggiatorEnabled[2]
          /\ audioContext' # "null" => isMuted' = CallArg'.isMuted[2]
          /\ CallArg'.heartbeatEnabled[2] = heartbeatEnabled =>
                /\ Synthesized("heartbeat")' = <<>>
                /\ Pending("heartbeat")' = Pending("heartbeat")
                /\ Registered("heartbeat")' = Registered("heartbeat")
          /\ CallArg'.arpeggiatorEnabled[2] = arpeggiatorEnabled =>
                /\ Synthesized("arpeggio")' = <<>>
                /\ Events("arpStart")' = <<>> /\ Events("arpStop")' = <<>>
                /\ Pending("arpeggio")' = Pending("arpeggio")
                /\ Registered("arpeggio")' = Registered("arpeggio")]_vars

\* applySettings was called while playing with the heartbeat on in the snapshot
\* and already running (no beat synthesized, its chain pending) and the
\* arpeggiator switched on by the call.
C25_Witness ==
    /\ lastOp = "applySettings"
    /\ isPlaying
    /\ CallArg.heartbeatEnabled[2] /\ heartbeatEnabled
    /\ Synthesized("heartbeat") = <<>>
    /\ Chains("heartbeat") = 1
    /\ Len(Events("arpStart")) = 1

-----------------------------------------------------------------------------
\* Properties of activation.

\* C26: an initAudio() call made when the graph exists changes nothing of the
\* engine state: the graph is the one that was there, and volume and isMuted
\* are not overwritten with the persisted values.
C26_ActivationIdempotent ==
    [][lastOp' = "initAudio" /\ audioContext # "null" => UNCHANGED progVars]_vars

\* initAudio() was called while the in-memory volume differs from the persisted
\* one (so the graph existed before the call), and the two still differ.
C26_Witness ==
    /\ lastOp = "initAudio"
    /\ audioContext # "null"
    /\ ReloadedVolume # currentVolume

-----------------------------------------------------------------------------
\* Properties of loading a preset.

\* C27: loading a preset whose key is missing, or whose stored text is empty,
\* is rejected by JSON.parse or parses to null, alerts the user and changes
\* nothing of the engine state (parameters, flags, isPlaying, registries).
C27_BadPresetChangesNothing ==
    [][lastOp' = "handleLoadPreset" /\ CallArg' \in BadPresets =>
          /\ UNCHANGED progVars
          /\ Len(Events("alert")') = 1
          /\ Events("status")' = <<>>]_vars

\* A truncated preset was loaded while the engine plays with parameters other
\* than the defaults and the heartbeat running.
C27_Witness ==
    /\ lastOp = "handleLoadPreset"
    /\ CallArg = Truncated
    /\ isPlaying
    /\ padOscType = "square"
    /\ heartbeatEnabled
    /\ Chains("heartbeat") = 1

-----------------------------------------------------------------------------
\* Properties of overlapping calls.

\* The number of pending timers whose callback is `kind`.
ChainsOf(kind) == BagSize(BagFilter(timers, LAMBDA cb : cb.kind = kind))

\* C28: when a startAmbient() call that awaited the resume has started the
\* layers, exactly one chord-transition timer, one bass timer and one phrase
\* timer are pending, and at most one arpeggio note timer and one beat-pair
\* timer, whatever other startAmbient() calls were made meanwhile.
C28_OverlappingStartsOnce ==
    lastOp = "startResumed" =>
        /\ ChainsOf("chordProgression") = 1
        /\ ChainsOf("playBassNote") = 1
        /\ ChainsOf("playPhrase") = 1
        /\ ChainsOf("playArpNote") <= 1
        /\ ChainsOf("playBeatPair") <= 1

\* C29: when stopAmbient() was called while a startAmbient() call awaited the
\* resume, the engine is not playing once that call's continuation has run:
\* isPlaying is false and both registries are empty.
C29_StopDuringStartWins ==
    [][lastOp = "stopAmbient" /\ awaiting = 1 /\ lastOp' = "startResumed" =>
          /\ ~isPlaying'
          /\ activeOscillators' = EmptyBag
          /\ activeTimers' = EmptyBag]_vars

-----------------------------------------------------------------------------
\* Properties of the heartbeat's period.

\* C30: at most one beat-pair timer is pending in every state, also after the
\* heartbeat was toggled off and on again while its timer was pending.
C30_OneBeatTimer == ChainsOf("playBeatPair") <= 1

-----------------------------------------------------------------------------
\* Properties of the arpeggio sequence.

\* C31: at most one arpeggio note timer is pending in every reachable state.
C31_OneArpeggioTimer == ChainsOf("playArpNote") <= 1

-----------------------------------------------------------------------------
\* Properties of the pad's chord sequence.

\* The index in `chords` of a chord of the sequence.
IndexOfChord(chord) == CHOOSE i \in 0..(Len(chords) - 1) : chords[i + 1] = chord

\* The chord that follows `chord` in the cyclic sequence.
NextChord(chord) == chords[((IndexOfChord(chord) + 1) % Len(chords)) + 1]

\* The pad transition of the last step: its event holds the chord emitted
\* (chord) and the chord before it (seq).
Transition == Events("chord")[1]

UnitsIn(registry, types) == BagFilter(registry, LAMBDA u : u.type \in types)

\* The pad units of a chord: per frequency one oscillator at it and one detuned.
PadUnitsOf(chord) ==
    SetToBag({[type |-> "pad", freq |-> chord[i]] : i \in DOMAIN chord}
             \cup {[type |-> "pad", freq |-> (chord[i] * 1003) \div 1000] : i \in DOMAIN chord})

\* After a pad transition the registered pad units are the six of the chord
\* just emitted.
PadUnitsAreCurrentChord ==
    [][Events("chord")' # <<>> =>
          /\ UnitsIn(activeOscillators', {"pad"}) = PadUnitsOf(currentPadChordNotes')
          /\ Registered("pad")' = 6]_vars

\* C33 as stated: after a pad transition the registered pad units are the six
\* of the chord just emitted, and a transition run by the timer leaves the
\* registered units of all other layers as they were.
C33_TransitionAsStated ==
    [][Events("chord")' # <<>> =>
          /\ UnitsIn(activeOscillators', {"pad"}) = PadUnitsOf(currentPadChordNotes')
          /\ Registered("pad")' = 6
          /\ lastOp' = "timer" =>
                UnitsIn(activeOscillators', LayerTypes \ {"pad"})
                    = UnitsIn(activeOscillators, LayerTypes \ {"pad"})]_vars

\* C33: after a pad transition the registered pad units are the six of the
\* chord just emitted; a transition run by the timer leaves the registered
\* units of the texture, melody, bass and heartbeat layers as they were, and
\* those of the arpeggio too unless it restarts the arpeggio sequence, after
\* which the one arpeggio unit registered is the first note of the new sequence.
C33_Transition ==
    [][Events("chord")' # <<>> =>
          /\ UnitsIn(activeOscillators', {"pad"}) = PadUnitsOf(currentPadChordNotes')
          /\ Registered("pad")' = 6
          /\ lastOp' = "timer" =>
                /\ UnitsIn(activeOscillators', LayerTypes \ {"pad", "arpeggio"})
                       = UnitsIn(activeOscillators, LayerTypes \ {"pad", "arpeggio"})
                /\ IF Events("arpStart")' # <<>>
                   THEN UnitsIn(activeOscillators', {"arpeggio"})
                            = SetToBag({[type |-> "arpeggio",
                                         freq |-> currentPadChordNotes'[1]]})
                   ELSE UnitsIn(activeOscillators', {"arpeggio"})
                            = UnitsIn(activeOscillators, {"arpeggio"})]_vars

\* The timer's transition replaced the pad units while units of the texture
\* and of the arpeggio were registered, and restarted the arpeggio sequence.
C33_Witness ==
    /\ lastOp = "timer"
    /\ Events("chord") # <<>>
    /\ Registered("pad") = 6
    /\ Registered("texture") = 1
    /\ Events("arpStart") # <<>>
    /\ Events("arpStop") # <<>> /\ Events("arpStop")[1].n = 1

-----------------------------------------------------------------------------
\* Properties of progress.

\* The last step was the callback `op` of a timer, run in a playing engine.
Ran(op) == lastOp = op /\ isPlaying

\* C34: while the engine plays and is not stopped, whatever step was the last,
\* a pad transition follows in the end, a bass note follows in the end, and
\* the beginning of a melody phrase follows in the end.
C34_LayersNeverStall ==
    /\ (isPlaying /\ lastOp # "chordProgression")
           ~> (~isPlaying \/ (Ran("chordProgression") /\ Events("chord") # <<>>))
    /\ (isPlaying /\ lastOp # "playBassNote")
           ~> (~isPlaying \/ (Ran("playBassNote") /\ Len(Synthesized("bass")) = 2))
    /\ (isPlaying /\ lastOp # "playPhrase")
           ~> (~isPlaying \/ (Ran("playPhrase") /\ ChainsOf("playPhrase") > 0))

\* The three layers have each run their callback in a playing engine: here the
\* phrase timer, with the pad's and the bassline's next timers pending.
C34_Witness ==
    /\ lastOp = "playPhrase"
    /\ isPlaying
    /\ ChainsOf("playPhrase") = 1
    /\ ChainsOf("chordProgression") = 1
    /\ ChainsOf("playBassNote") = 1
    /\ ChainsOf("playMelodyNote") > 0

\* The layers whose units remove themselves from the registry.
SelfCleaning == {"melody", "heartbeat", "arpeggio"}

\* The pending self-cleanup timers of the unit `u`.
CleanupsOf(u) == BagSize(BagFilter(timers, LAMBDA cb : cb.kind = "cleanup" /\ cb.unit = u))

-----------------------------------------------------------------------------
\* Properties of the stopped engine.

\* C36: whenever the engine is not playing, the registry of active units and
\* the registry of timers are both empty.
C36_StoppedIsEmpty ==
    ~isPlaying => activeOscillators = EmptyBag /\ activeTimers = EmptyBag

\* A stopped engine on which applySettings has just run the volume, mute, pad
\* and layer controls, with both optional layers enabled.
C36_Witness ==
    /\ ~isPlaying
    /\ lastOp = "applySettings"
    /\ heartbeatEnabled
    /\ arpeggiatorEnabled
    /\ audioContext # "null"
    /\ lsVolume # Absent

-----------------------------------------------------------------------------
\* Properties that relate calls.

\* The value the last setVolume call set: setVolume alone writes 'ambientVolume'.
LastSetVolume == parseFloat(lsVolume)

\* C37: when a toggleMute call that muted is followed by a toggleMute call that
\* unmutes, the volume afterwards, and the level the master gain returns to,
\* is the value the last setVolume call set.
C37_MuteCycleRestoresVolume ==
    [][(/\ lastOp = "toggleMute" /\ isMuted /\ lsVolume # Absent
        /\ lastOp' = "toggleMute" /\ ~isMuted')
           => currentVolume' = LastSetVolume /\ gainTarget' = LastSetVolume]_vars

\* C38: right after an applySettings(s) call with a valid snapshot s that ends
\* with the graph created, getSettings() returns s.
C38_AppliedIsReturned ==
    (lastOp = "applySettings" /\ audioContext # "null") => getSettings(Cur) = CallArg

-----------------------------------------------------------------------------
\* Properties of applySettings on arguments that are no full snapshot.

\* The field value v has the type t.
Typed(v, t) == typeof(v) = t

\* The step is an applySettings call.
Applies == lastOp' = "applySettings"

\* The argument of the call the step makes.
Arg == CallArg'

\* A null or undefined argument changes nothing of the engine or the store.
NullChangesNothing ==
    (Applies /\ Falsy(Arg)) => Cur' = Cur

\* The well-typed fields of an object argument are applied (volume and mute
\* once the graph exists).
TypedFieldsApplied ==
    (Applies /\ ~Falsy(Arg)) =>
        LET s == Arg[2]
        IN  /\ (Typed(s.volume, "number") /\ audioContext' # "null")
                   => lsVolume' = NumberToString(s.volume[2])
            /\ (Typed(s.isMuted, "boolean") /\ audioContext' # "null")
                   => isMuted' = s.isMuted[2]
            /\ (Typed(s.padOscType, "string") /\ s.padOscType[2] \in validOscTypes)
                   => padOscType' = s.padOscType[2]
            /\ Typed(s.padFilterFreq, "number") => padFilterFreq' = s.padFilterFreq[2]
            /\ Typed(s.chordSpeedMs, "number") => chordSpeedMs' = s.chordSpeedMs[2]
            /\ Typed(s.heartbeatEnabled, "boolean")
                   => heartbeatEnabled' = s.heartbeatEnabled[2]
            /\ Typed(s.arpeggiatorEnabled, "boolean")
                   => arpeggiatorEnabled' = s.arpeggiatorEnabled[2]

\* The fields of an object argument other than volume that are absent, of the
\* wrong type or (the timbre) no oscillator type leave their parameter as it was.
OtherFieldsIgnored ==
    (Applies /\ ~Falsy(Arg)) =>
        LET s == Arg[2]
        IN  /\ ~Typed(s.isMuted, "boolean") => isMuted' = isMuted /\ lsMuted' = lsMuted
            /\ ~(Typed(s.padOscType, "string") /\ s.padOscType[2] \in validOscTypes)
                   => padOscType' = padOscType
            /\ ~Typed(s.padFilterFreq, "number") => padFilterFreq' = padFilterFreq
            /\ ~Typed(s.chordSpeedMs, "number") => chordSpeedMs' = chordSpeedMs
            /\ ~Typed(s.heartbeatEnabled, "boolean") => heartbeatEnabled' = heartbeatEnabled
            /\ ~Typed(s.arpeggiatorEnabled, "boolean")
                   => arpeggiatorEnabled' = arpeggiatorEnabled

\* The call writes no volume: not to the store, and not as the gain's target
\* unless it toggles mute.
NoVolumeSet == lsVolume' = lsVolume /\ (isMuted' = isMuted => gainTarget' = gainTarget)

\* The step is a call that mutes.
Mutes == isMuted' /\ ~isMuted

====
